---------------------------- MODULE Spec2Model ----------------------------
(***************************************************************************)
(* A model of the identity-resolution and reconciliation logic of          *)
(* src/etl/etl_script.py (class PremierLeagueETL).                         *)
(*                                                                         *)
(* Text is modelled as a sequence of one-character strings, so that        *)
(* str.strip(), str.lower(), `in`, str.split() and the fuzzy scorer are    *)
(* computed character by character, as the code computes them.  Python's   *)
(* None is the one-element sequence <<"None">>, which no text equals.      *)
(* A blank CSV cell (pandas NaN) and the empty string are both the empty   *)
(* sequence: every function modelled here sends the two to the same result *)
(* through the same guard.                                                 *)
(***************************************************************************)
EXTENDS Integers, Sequences, FiniteSets, TLC

VARIABLES
    \* ---- parse_fixture -------------------------------------------------
    fixture,        \* the raw Fixture cell
    parsed,         \* the (home_team, away_team) pair parse_fixture returned
    fpc,            \* "input" before the call, "parsed" after, "idle" elsewhere
    \* ---- normalize_team_name --------------------------------------------
    rawName,        \* the raw team name
    normalized,     \* the name normalize_team_name returned, None if unresolved
    nScored,        \* how many candidates the call handed to the fuzzy scorer
    npc,            \* "input" before the call, "done" after, "idle" elsewhere
    \* ---- load_match_stats -----------------------------------------------
    matches,        \* the matches table, in the order a scan returns its rows
    match_stats,    \* the match_stats table
    file,           \* the rows of the stats file
    df,             \* the data frame of the running load
    spc,            \* the step load_match_stats is at; "done", "idle"
    master_match_map,   \* key -> match id
    match_info_map,     \* match id -> date and team ids
    duplicate_keys, \* the duplicate keys reported while the maps were built
    match_results,  \* what match_csv_row_to_master_map returned, row by row
    team_results,   \* what identify_team_id returned, row by row
    inserted,       \* the counters of the write loop
    updated,
    failed,
    idx,            \* the row the write loop is at
    attempt,        \* the attempt of the retry loop, from 0
    retry_delay,
    row_success,
    faults,         \* how many more errors the store and the network will raise
    clock,          \* NOW() of the store
    run,            \* 1 for the first load of the file, 2 for the second, ...
    applied,        \* history: every committed upsert, with the stored row
                    \* before it (<<>> if none, else <<row>>) and after it
    tried,          \* history: every attempt of the run's write loop, with
                    \* its row, what it met, the delay and the counter after
    \* ---- _auto_insert_missing_players, two runs at once ------------------
    players,        \* the committed rows of the players table
    players_id_seq, \* the last value of the id sequence
    players_unique, \* whether the table has a unique (team_id, player_name)
    pending,        \* per run, the row it has inserted and not yet committed
    prow,           \* per run, the missing player's row
    ppc,            \* per run, the step it is at
    player_map,     \* per run, its player_map
    pinserted,      \* per run, its counter of inserted players
    \* ---- load_matches -----------------------------------------------------
    matches_file,   \* the rows of the matches file
    matches_inserted,   \* history: the number of rows each run inserted
    \* ---- load_player_stats, the update loop -------------------------------
    player_df,      \* the rows with a player_id, their stat cells as read
    player_idx,     \* the row the update loop is at; 0 when it does not run
    player_updated, \* the counter of the update loop
    player_tried,   \* history: every row of the loop, what it met, and the
                    \* player's record before and after
    \* ---- run ---------------------------------------------------------------
    data_dir,       \* the names of the files in the data directory
    rpc,            \* where run() is: "connect", "load", "verify", "returned"
    connect_attempt,\* attempt of connect()'s loop
    connected,      \* connect() returned True
    step,           \* the load step run() is at, 1..7
    steps_called,   \* history: the load steps called, in order
    run_success,    \* success in run()
    run_result,     \* what run() returned, "running" before
    \* ---- load_players ------------------------------------------------------
    players_file,   \* the rows of players.csv
    players_loaded, \* history: the number of rows each run inserted
    \* ---- load_stadiums -----------------------------------------------------
    stadiums,       \* the stadiums table
    stadiums_file,  \* the rows of the stadium file
    stadiums_loaded,\* history: the number of rows each run inserted
    \* ---- load_player_stats, the resolution of the players ------------------
    player_rows,    \* the merged rows of the two files, before resolution
    \* ---- the insert loops of load_matches, load_players, load_stadiums ---
    store_outcomes, \* what the store answers to the INSERTs to come, in order
    load_log,       \* history: every load with store answers: its rows, the
                    \* rows executed, the rows that stayed in the table, the
                    \* counter and what the load returned
    \* ---- _auto_insert_missing_players, one run -------------------------
    insertable,     \* the rows of the missing players, duplicates removed
    ins_idx,        \* the row the loop is at; 0 when it does not run
    ins_key,        \* the local variable key: <<>> while unbound, else <<key>>
    ins_map,        \* player_map
    ins_count,      \* the counter inserted
    ins_result,     \* "running", "returned" or "raised"
    ins_tried,      \* history: every row of the loop with what it met
    \* ---- load_match_events ---------------------------------------------
    events_file,    \* the rows of PlaysExport.csv
    match_events,   \* the match_events table
    event_warnings, \* what the load reported about the matches it indexed
    events_pc,      \* "input" before the load, "done" after, "idle" elsewhere
    \* ---- load_match_stats, the formations of LineUpExport --------------
    lineup_file,    \* the rows of LineUpExport.csv
    \* ---- clean_int and clean_corners -----------------------------------
    raw_value,      \* the raw cell
    cleaned_value,  \* what clean_int and clean_corners returned for it
    cvpc,           \* "input" before the calls, "done" after, "idle" elsewhere
    \* ---- the team canonicalization of the four load paths --------------
    raw_team,       \* the raw team name
    canonical_names, \* the canonical name each load path gave it
    cnpc            \* "input" before the calls, "done" after, "idle" elsewhere

varsFixture == <<fixture, parsed, fpc>>
varsNames == <<rawName, normalized, nScored, npc>>
varsStatsRun ==
    <<match_stats, file, df, spc, master_match_map, match_info_map,
      duplicate_keys, match_results, team_results, inserted, updated, failed,
      idx, attempt, retry_delay, row_success, faults, clock, run, applied,
      tried>>
varsMatches == <<matches_file, matches_inserted>>
varsPlayerStats == <<player_df, player_idx, player_updated, player_tried>>
varsRun == <<data_dir, rpc, connect_attempt, connected, step, steps_called,
            run_success, run_result>>
varsLoadPlayers == <<players_file, players_loaded>>
varsStadiums == <<stadiums, stadiums_file, stadiums_loaded>>
\* the variables of the parts modelled last, group by group
varsStoreLoads == <<store_outcomes, load_log>>
varsAuto == <<insertable, ins_idx, ins_key, ins_map, ins_count, ins_result,
    ins_tried>>
varsEvents == <<events_file, match_events, event_warnings, events_pc>>
varsLineup == <<lineup_file>>
varsClean == <<raw_value, cleaned_value, cvpc>>
varsCanon == <<raw_team, canonical_names, cnpc>>
varsMore == <<varsStoreLoads, varsAuto, varsEvents, varsLineup, varsClean, varsCanon>>
restStoreLoads == <<varsAuto, varsEvents, varsLineup, varsClean, varsCanon>>
restAuto == <<varsStoreLoads, varsEvents, varsLineup, varsClean, varsCanon>>
restEvents == <<varsStoreLoads, varsAuto, varsLineup, varsClean, varsCanon>>
restLineup == <<varsStoreLoads, varsAuto, varsEvents, varsClean, varsCanon>>
restClean == <<varsStoreLoads, varsAuto, varsEvents, varsLineup, varsCanon>>
restCanon == <<varsStoreLoads, varsAuto, varsEvents, varsLineup, varsClean>>
IdleStoreLoads ==
    /\ store_outcomes = <<>>
    /\ load_log = <<>>
IdleAuto ==
    /\ insertable = <<>>
    /\ ins_idx = 0
    /\ ins_key = <<>>
    /\ ins_map = <<>>
    /\ ins_count = 0
    /\ ins_result = "idle"
    /\ ins_tried = <<>>
IdleEvents ==
    /\ events_file = <<>>
    /\ match_events = <<>>
    /\ event_warnings = <<>>
    /\ events_pc = "idle"
IdleLineup ==
    /\ lineup_file = <<>>
IdleClean ==
    /\ raw_value = <<>>
    /\ cleaned_value = <<>>
    /\ cvpc = "idle"
IdleCanon ==
    /\ raw_team = <<>>
    /\ canonical_names = <<>>
    /\ cnpc = "idle"
IdleNotStoreLoads ==
    /\ IdleAuto
    /\ IdleEvents
    /\ IdleLineup
    /\ IdleClean
    /\ IdleCanon
IdleNotAuto ==
    /\ IdleStoreLoads
    /\ IdleEvents
    /\ IdleLineup
    /\ IdleClean
    /\ IdleCanon
IdleNotEvents ==
    /\ IdleStoreLoads
    /\ IdleAuto
    /\ IdleLineup
    /\ IdleClean
    /\ IdleCanon
IdleNotLineup ==
    /\ IdleStoreLoads
    /\ IdleAuto
    /\ IdleEvents
    /\ IdleClean
    /\ IdleCanon
IdleNotClean ==
    /\ IdleStoreLoads
    /\ IdleAuto
    /\ IdleEvents
    /\ IdleLineup
    /\ IdleCanon
IdleNotCanon ==
    /\ IdleStoreLoads
    /\ IdleAuto
    /\ IdleEvents
    /\ IdleLineup
    /\ IdleClean
IdleMore ==
    /\ IdleStoreLoads
    /\ IdleAuto
    /\ IdleEvents
    /\ IdleLineup
    /\ IdleClean
    /\ IdleCanon
\* ---- end of the groups
varsOther == <<varsRun, varsLoadPlayers, varsStadiums, player_rows, varsMore>>
varsStats == <<matches, varsStatsRun>>
varsPlayers ==
    <<players, players_id_seq, players_unique, pending, prow, ppc, player_map,
      pinserted>>
vars == <<varsFixture, varsNames, varsStats, varsMatches, varsPlayers, varsPlayerStats,
          varsOther>>

\* what each part of the program leaves alone
notFixture == <<varsNames, varsStats, varsMatches, varsPlayers, varsPlayerStats,
               varsOther>>
notNames == <<varsFixture, varsStats, varsMatches, varsPlayers, varsPlayerStats,
               varsOther>>
notStats == <<varsFixture, varsNames, varsMatches, varsPlayers, varsPlayerStats,
               varsOther>>
notPlayers == <<varsFixture, varsNames, varsStats, varsMatches, varsPlayerStats,
               varsOther>>

-----------------------------------------------------------------------------
(* Python values and string primitives                                     *)

None == <<"None">>

RECURSIVE lstrip(_)
lstrip(s) == IF s # <<>> /\ Head(s) = " " THEN lstrip(Tail(s)) ELSE s

RECURSIVE rstrip(_)
rstrip(s) ==
    IF s # <<>> /\ s[Len(s)] = " " THEN rstrip(SubSeq(s, 1, Len(s) - 1)) ELSE s

\* str.strip()
strip(s) == rstrip(lstrip(s))

\* sep occurs in s at position i
MatchAt(s, sep, i) ==
    /\ i >= 1
    /\ i + Len(sep) - 1 <= Len(s)
    /\ SubSeq(s, i, i + Len(sep) - 1) = sep

RECURSIVE FindFrom(_, _, _)
FindFrom(s, sep, i) ==
    IF i + Len(sep) - 1 > Len(s) THEN 0
    ELSE IF SubSeq(s, i, i + Len(sep) - 1) = sep THEN i
    ELSE FindFrom(s, sep, i + 1)

\* str.find() + 1: the position of the first occurrence of sep in s, 0 if none
find(s, sep) == FindFrom(s, sep, 1)

RECURSIVE Join(_, _)
\* glue.join(words)
Join(words, glue) ==
    IF words = <<>> THEN <<>>
    ELSE IF Len(words) = 1 THEN words[1]
    ELSE words[1] \o glue \o Join(Tail(words), glue)

-----------------------------------------------------------------------------
(* parse_fixture (etl_script.py 1285-1325)                                 *)

SepAt     == <<" ", "a", "t", " ">>
SepVs     == <<" ", "v", "s", " ">>
SepDash   == <<" ", "-", " ">>
SepV      == <<" ", "v", " ">>
SepAtSign == <<" ", "@", " ">>

\* a plausible slip: ' vs ' tried before ' at '
separators_vs_first == <<SepVs, SepAt, SepDash, SepV, SepAtSign>>

\* separators = [' at ', ' vs ', ' - ', ' v ', ' @ ']
separators == <<SepAt, SepVs, SepDash, SepV, SepAtSign>>

RECURSIVE parse_fixture_loop(_, _)
\* for sep in separators: if sep in fixture_str: parts = fixture_str.split(sep, 1) ...
parse_fixture_loop(fixture_str, k) ==
    IF k > Len(separators) THEN <<None, None>>
    ELSE LET sep == separators[k]
             i   == find(fixture_str, sep)
         IN  IF i > 0
             THEN LET team1 == strip(SubSeq(fixture_str, 1, i - 1))
                      team2 == strip(SubSeq(fixture_str, i + Len(sep), Len(fixture_str)))
                  IN  IF sep = SepAt \/ sep = SepAtSign
                      THEN <<team2, team1>>      \* "Away at Home"
                      ELSE <<team1, team2>>      \* "Home vs Away"
             ELSE parse_fixture_loop(fixture_str, k + 1)

parse_fixture(fx) ==
    IF fx = <<>> THEN <<None, None>>             \* not fixture or pd.isna(fixture)
    ELSE parse_fixture_loop(strip(fx), 1)

\* ---- the fixture texts the model feeds to parse_fixture ---------------------
MaxFixtureWords == 4

FixtureWords ==
    { <<"A">>, <<"B">>, <<"a", "t">>, <<"v", "s">>, <<"-">>, <<"v">>, <<"@">> }

Pads == { <<>>, <<" ">> }

FixtureInputs ==
    { l \o Join(ws, <<" ">>) \o r :
        ws \in UNION { [1..n -> FixtureWords] : n \in 0..MaxFixtureWords },
        l \in Pads, r \in Pads }

StartFixture ==
    /\ fixture \in FixtureInputs
    /\ parsed = <<None, None>>
    /\ fpc = "input"

IdleFixture ==
    /\ fixture = <<>>
    /\ parsed = <<None, None>>
    /\ fpc = "idle"

ParseFixture ==
    /\ fpc = "input"
    /\ parsed' = parse_fixture(fixture)
    /\ fpc' = "parsed"
    /\ UNCHANGED <<fixture, notFixture>>

NextFixture == ParseFixture

-----------------------------------------------------------------------------
(* C8: parse_fixture takes the first separator of the fixed order ' at ',   *)
(* ' vs ', ' - ', ' v ', ' @ ' that occurs anywhere in the (trimmed) text,  *)
(* whatever its position relative to the other separators, splits at that   *)
(* separator's first occurrence, and returns (second part, first part) for  *)
(* ' at ' and ' @ ' and (first part, second part) for the others; with no   *)
(* separator in the text it returns (None, None).                           *)

C8_Order == <<SepAt, SepVs, SepDash, SepV, SepAtSign>>

C8_Occurs(t, sep) == \E i \in 1..Len(t) : MatchAt(t, sep, i)

C8_Expected(t) ==
    LET present == { k \in 1..Len(C8_Order) : C8_Occurs(t, C8_Order[k]) }
    IN  IF present = {} THEN <<None, None>>
        ELSE LET k     == CHOOSE k \in present : \A j \in present : k <= j
                 sep   == C8_Order[k]
                 i     == CHOOSE i \in 1..Len(t) :
                              /\ MatchAt(t, sep, i)
                              /\ \A j \in 1..(i - 1) : ~MatchAt(t, sep, j)
                 first == strip(SubSeq(t, 1, i - 1))
                 second == strip(SubSeq(t, i + Len(sep), Len(t)))
             IN  IF k \in {1, 5} THEN <<second, first>> ELSE <<first, second>>

C8_FixtureSeparatorPrecedence ==
    fpc = "parsed" => parsed = C8_Expected(strip(fixture))

\* ' vs ' occurs before ' at ' in the text, and ' at ' still decides the split
C8_Witness ==
    /\ fpc = "parsed"
    /\ find(strip(fixture), SepVs) > 0
    /\ find(strip(fixture), SepAt) > find(strip(fixture), SepVs)
    /\ parsed = <<<<"B">>, <<"A", " ", "v", "s">>>>

-----------------------------------------------------------------------------
(* normalize_team_name (etl_script.py 375-408) and the fuzzy scorer it      *)
(* calls: rapidfuzz process.extractOne with scorer fuzz.token_sort_ratio,   *)
(* i.e. split on blanks, sort the tokens, join with one blank, then         *)
(* 100 * 2*LCS / (len1 + len2).  A score is kept exact as the pair          *)
(* <<200 * LCS, len1 + len2>> and compared by cross-multiplication.         *)

\* the characters of the model in code-point order
Alphabet ==
    << " ", "%", "&", ",", "-", ".",
       "0", "1", "2", "3", "4", "5", "6", "7", "8", "9",
       "A", "B", "C", "D", "E", "F", "G", "H", "I", "J", "K", "L", "M",
       "N", "O", "P", "Q", "R", "S", "T", "U", "V", "W", "X", "Y", "Z",
       "a", "b", "c", "d", "e", "f", "g", "h", "i", "j", "k", "l", "m",
       "n", "o", "p", "q", "r", "s", "t", "u", "v", "w", "x", "y", "z",
       "é", "ñ", "ú" >>

Ord(c) == CHOOSE i \in 1..Len(Alphabet) : Alphabet[i] = c

\* str.lower()
lower(s) ==
    [i \in 1..Len(s) |->
        IF Ord(s[i]) \in 17..42 THEN Alphabet[Ord(s[i]) + 26] ELSE s[i]]

\* str.upper(), used to build inputs only
upper(s) ==
    [i \in 1..Len(s) |->
        IF Ord(s[i]) \in 43..68 THEN Alphabet[Ord(s[i]) - 26] ELSE s[i]]

RECURSIVE split(_, _, _)
\* str.split(): the blank-separated tokens of s; split(s, <<>>, <<>>)
split(s, word, acc) ==
    IF s = <<>> THEN (IF word = <<>> THEN acc ELSE Append(acc, word))
    ELSE IF Head(s) = " "
         THEN split(Tail(s), <<>>, IF word = <<>> THEN acc ELSE Append(acc, word))
         ELSE split(Tail(s), Append(word, Head(s)), acc)

RECURSIVE StrLess(_, _)
\* a < b on Python strings (code-point order)
StrLess(a, b) ==
    IF b = <<>> THEN FALSE
    ELSE IF a = <<>> THEN TRUE
    ELSE IF Head(a) # Head(b) THEN Ord(Head(a)) < Ord(Head(b))
    ELSE StrLess(Tail(a), Tail(b))

RECURSIVE sorted(_)
\* sorted(tokens)
sorted(tokens) ==
    IF tokens = <<>> THEN <<>>
    ELSE LET rest == sorted(Tail(tokens))
             t    == Head(tokens)
             n    == Cardinality({ i \in 1..Len(rest) : StrLess(rest[i], t) })
         IN  SubSeq(rest, 1, n) \o <<t>> \o SubSeq(rest, n + 1, Len(rest))

RECURSIVE LcsRow(_, _, _, _, _)
\* one row of the longest-common-subsequence table, left to right: acc holds
\* the entries of columns 0..j-1 of the row of ch, prev the row above
LcsRow(prev, ch, b, j, acc) ==
    IF j > Len(b) THEN acc
    ELSE LET v   == IF ch = b[j] THEN prev[j] + 1
                    ELSE IF prev[j + 1] >= acc[j] THEN prev[j + 1] ELSE acc[j]
             row == Append(acc, v)
         IN  IF Len(row) = j + 1 THEN LcsRow(prev, ch, b, j + 1, row) ELSE <<>>

RECURSIVE LcsRows(_, _, _, _)
\* the length of the longest common subsequence of a and b, row by row
LcsRows(a, b, i, prev) ==
    IF i > Len(a) THEN prev[Len(b) + 1]
    ELSE LET row == LcsRow(prev, a[i], b, 1, <<0>>)
         IN  IF Len(row) = Len(b) + 1 THEN LcsRows(a, b, i + 1, row) ELSE 0

\* fuzz.ratio(a, b) as <<numerator, denominator>> of the score out of 100
ratio(a, b) ==
    IF Len(a) + Len(b) = 0 THEN <<100, 1>>
    ELSE <<200 * LcsRows(a, b, 1, [j \in 1..(Len(b) + 1) |-> 0]), Len(a) + Len(b)>>

\* fuzz.token_sort_ratio(s1, s2)
token_sort_ratio(s1, s2) ==
    ratio(Join(sorted(split(s1, <<>>, <<>>)), <<" ">>),
          Join(sorted(split(s2, <<>>, <<>>)), <<" ">>))

\* score x > score y, score x >= integer t
ScoreGreater(x, y) == x[1] * y[2] > y[1] * x[2]
ScoreAtLeast(x, t) == x[1] >= t * x[2]

\* process.extractOne(query, choices, scorer=fuzz.token_sort_ratio):
\* <<choice, score>> of the highest score, the first scanned on ties (a later
\* choice replaces the best only with a strictly greater score); None for no
\* choices
extractOne(query, choices) ==
    IF choices = <<>> THEN None
    ELSE LET score == [k \in 1..Len(choices) |-> token_sort_ratio(query, choices[k])]
             best  == CHOOSE k \in 1..Len(choices) :
                          /\ \A j \in 1..(k - 1) : ScoreGreater(score[k], score[j])
                          /\ \A j \in (k + 1)..Len(choices) : ~ScoreGreater(score[j], score[k])
         IN  <<choices[best], score[best]>>

\* TEAM_NAME_MAPPING, the dict literal as written: <<key, value>> in source
\* order ('bfc' is written twice; a dict literal keeps the last value)
TEAM_NAME_MAPPING ==
    <<
       <<<<"m", "a", "n", " ", "u", "t", "d">>,
         <<"M", "a", "n", "c", "h", "e", "s", "t", "e", "r", " ", "U", "n", "i", "t", "e", "d">>>>,
       <<<<"m", "a", "n", "c", "h", "e", "s", "t", "e", "r", " ", "u", "t", "d">>,
         <<"M", "a", "n", "c", "h", "e", "s", "t", "e", "r", " ", "U", "n", "i", "t", "e", "d">>>>,
       <<<<"m", "a", "n", " ", "u">>,
         <<"M", "a", "n", "c", "h", "e", "s", "t", "e", "r", " ", "U", "n", "i", "t", "e", "d">>>>,
       <<<<"m", "a", "n", "c", "h", "e", "s", "t", "e", "r", " ", "u", "n", "i", "t", "e", "d">>,
         <<"M", "a", "n", "c", "h", "e", "s", "t", "e", "r", " ", "U", "n", "i", "t", "e", "d">>>>,
       <<<<"m", "u", "f", "c">>,
         <<"M", "a", "n", "c", "h", "e", "s", "t", "e", "r", " ", "U", "n", "i", "t", "e", "d">>>>,
       <<<<"m", "a", "n", " ", "c", "i", "t", "y">>,
         <<"M", "a", "n", "c", "h", "e", "s", "t", "e", "r", " ", "C", "i", "t", "y">>>>,
       <<<<"m", "a", "n", "c", "h", "e", "s", "t", "e", "r", " ", "c", "i", "t", "y">>,
         <<"M", "a", "n", "c", "h", "e", "s", "t", "e", "r", " ", "C", "i", "t", "y">>>>,
       <<<<"m", "c", "f", "c">>,
         <<"M", "a", "n", "c", "h", "e", "s", "t", "e", "r", " ", "C", "i", "t", "y">>>>,
       <<<<"l", "i", "v", "e", "r", "p", "o", "o", "l">>,
         <<"L", "i", "v", "e", "r", "p", "o", "o", "l">>>>,
       <<<<"l", "f", "c">>,
         <<"L", "i", "v", "e", "r", "p", "o", "o", "l">>>>,
       <<<<"c", "h", "e", "l", "s", "e", "a">>,
         <<"C", "h", "e", "l", "s", "e", "a">>>>,
       <<<<"c", "f", "c">>,
         <<"C", "h", "e", "l", "s", "e", "a">>>>,
       <<<<"a", "r", "s", "e", "n", "a", "l">>,
         <<"A", "r", "s", "e", "n", "a", "l">>>>,
       <<<<"a", "f", "c">>,
         <<"A", "r", "s", "e", "n", "a", "l">>>>,
       <<<<"t", "o", "t", "t", "e", "n", "h", "a", "m">>,
         <<"T", "o", "t", "t", "e", "n", "h", "a", "m", " ", "H", "o", "t", "s", "p", "u", "r">>>>,
       <<<<"s", "p", "u", "r", "s">>,
         <<"T", "o", "t", "t", "e", "n", "h", "a", "m", " ", "H", "o", "t", "s", "p", "u", "r">>>>,
       <<<<"t", "o", "t", "t", "e", "n", "h", "a", "m", " ", "h", "o", "t", "s", "p", "u", "r">>,
         <<"T", "o", "t", "t", "e", "n", "h", "a", "m", " ", "H", "o", "t", "s", "p", "u", "r">>>>,
       <<<<"t", "h", "f", "c">>,
         <<"T", "o", "t", "t", "e", "n", "h", "a", "m", " ", "H", "o", "t", "s", "p", "u", "r">>>>,
       <<<<"b", "r", "i", "g", "h", "t", "o", "n">>,
         <<"B", "r", "i", "g", "h", "t", "o", "n", " ", "&", " ", "H", "o", "v", "e", " ", "A", "l", "b", "i", "o", "n">>>>,
       <<<<"b", "r", "i", "g", "h", "t", "o", "n", " ", "&", " ", "h", "o", "v", "e", " ", "a", "l", "b", "i", "o", "n">>,
         <<"B", "r", "i", "g", "h", "t", "o", "n", " ", "&", " ", "H", "o", "v", "e", " ", "A", "l", "b", "i", "o", "n">>>>,
       <<<<"b", "r", "i", "g", "h", "t", "o", "n", " ", "a", "n", "d", " ", "h", "o", "v", "e", " ", "a", "l", "b", "i", "o", "n">>,
         <<"B", "r", "i", "g", "h", "t", "o", "n", " ", "&", " ", "H", "o", "v", "e", " ", "A", "l", "b", "i", "o", "n">>>>,
       <<<<"w", "e", "s", "t", " ", "h", "a", "m">>,
         <<"W", "e", "s", "t", " ", "H", "a", "m", " ", "U", "n", "i", "t", "e", "d">>>>,
       <<<<"w", "e", "s", "t", " ", "h", "a", "m", " ", "u", "n", "i", "t", "e", "d">>,
         <<"W", "e", "s", "t", " ", "H", "a", "m", " ", "U", "n", "i", "t", "e", "d">>>>,
       <<<<"w", "h", "u">>,
         <<"W", "e", "s", "t", " ", "H", "a", "m", " ", "U", "n", "i", "t", "e", "d">>>>,
       <<<<"n", "e", "w", "c", "a", "s", "t", "l", "e">>,
         <<"N", "e", "w", "c", "a", "s", "t", "l", "e", " ", "U", "n", "i", "t", "e", "d">>>>,
       <<<<"n", "e", "w", "c", "a", "s", "t", "l", "e", " ", "u", "n", "i", "t", "e", "d">>,
         <<"N", "e", "w", "c", "a", "s", "t", "l", "e", " ", "U", "n", "i", "t", "e", "d">>>>,
       <<<<"n", "u", "f", "c">>,
         <<"N", "e", "w", "c", "a", "s", "t", "l", "e", " ", "U", "n", "i", "t", "e", "d">>>>,
       <<<<"c", "r", "y", "s", "t", "a", "l", " ", "p", "a", "l", "a", "c", "e">>,
         <<"C", "r", "y", "s", "t", "a", "l", " ", "P", "a", "l", "a", "c", "e">>>>,
       <<<<"c", "p", "f", "c">>,
         <<"C", "r", "y", "s", "t", "a", "l", " ", "P", "a", "l", "a", "c", "e">>>>,
       <<<<"f", "u", "l", "h", "a", "m">>,
         <<"F", "u", "l", "h", "a", "m">>>>,
       <<<<"f", "f", "c">>,
         <<"F", "u", "l", "h", "a", "m">>>>,
       <<<<"w", "o", "l", "v", "e", "s">>,
         <<"W", "o", "l", "v", "e", "r", "h", "a", "m", "p", "t", "o", "n", " ", "W", "a", "n", "d", "e", "r", "e", "r", "s">>>>,
       <<<<"w", "o", "l", "v", "e", "r", "h", "a", "m", "p", "t", "o", "n">>,
         <<"W", "o", "l", "v", "e", "r", "h", "a", "m", "p", "t", "o", "n", " ", "W", "a", "n", "d", "e", "r", "e", "r", "s">>>>,
       <<<<"w", "o", "l", "v", "e", "r", "h", "a", "m", "p", "t", "o", "n", " ", "w", "a", "n", "d", "e", "r", "e", "r", "s">>,
         <<"W", "o", "l", "v", "e", "r", "h", "a", "m", "p", "t", "o", "n", " ", "W", "a", "n", "d", "e", "r", "e", "r", "s">>>>,
       <<<<"w", "w", "f", "c">>,
         <<"W", "o", "l", "v", "e", "r", "h", "a", "m", "p", "t", "o", "n", " ", "W", "a", "n", "d", "e", "r", "e", "r", "s">>>>,
       <<<<"e", "v", "e", "r", "t", "o", "n">>,
         <<"E", "v", "e", "r", "t", "o", "n">>>>,
       <<<<"e", "f", "c">>,
         <<"E", "v", "e", "r", "t", "o", "n">>>>,
       <<<<"a", "s", "t", "o", "n", " ", "v", "i", "l", "l", "a">>,
         <<"A", "s", "t", "o", "n", " ", "V", "i", "l", "l", "a">>>>,
       <<<<"v", "i", "l", "l", "a">>,
         <<"A", "s", "t", "o", "n", " ", "V", "i", "l", "l", "a">>>>,
       <<<<"a", "v", "f", "c">>,
         <<"A", "s", "t", "o", "n", " ", "V", "i", "l", "l", "a">>>>,
       <<<<"b", "o", "u", "r", "n", "e", "m", "o", "u", "t", "h">>,
         <<"A", "F", "C", " ", "B", "o", "u", "r", "n", "e", "m", "o", "u", "t", "h">>>>,
       <<<<"a", "f", "c", " ", "b", "o", "u", "r", "n", "e", "m", "o", "u", "t", "h">>,
         <<"A", "F", "C", " ", "B", "o", "u", "r", "n", "e", "m", "o", "u", "t", "h">>>>,
       <<<<"b", "r", "e", "n", "t", "f", "o", "r", "d">>,
         <<"B", "r", "e", "n", "t", "f", "o", "r", "d">>>>,
       <<<<"b", "f", "c">>,
         <<"B", "r", "e", "n", "t", "f", "o", "r", "d">>>>,
       <<<<"n", "o", "t", "t", "i", "n", "g", "h", "a", "m", " ", "f", "o", "r", "e", "s", "t">>,
         <<"N", "o", "t", "t", "i", "n", "g", "h", "a", "m", " ", "F", "o", "r", "e", "s", "t">>>>,
       <<<<"n", "f", "f", "c">>,
         <<"N", "o", "t", "t", "i", "n", "g", "h", "a", "m", " ", "F", "o", "r", "e", "s", "t">>>>,
       <<<<"l", "u", "t", "o", "n">>,
         <<"L", "u", "t", "o", "n", " ", "T", "o", "w", "n">>>>,
       <<<<"l", "u", "t", "o", "n", " ", "t", "o", "w", "n">>,
         <<"L", "u", "t", "o", "n", " ", "T", "o", "w", "n">>>>,
       <<<<"l", "t", "f", "c">>,
         <<"L", "u", "t", "o", "n", " ", "T", "o", "w", "n">>>>,
       <<<<"s", "h", "e", "f", "f", "i", "e", "l", "d", " ", "u", "n", "i", "t", "e", "d">>,
         <<"S", "h", "e", "f", "f", "i", "e", "l", "d", " ", "U", "n", "i", "t", "e", "d">>>>,
       <<<<"s", "h", "e", "f", "f", " ", "u", "t", "d">>,
         <<"S", "h", "e", "f", "f", "i", "e", "l", "d", " ", "U", "n", "i", "t", "e", "d">>>>,
       <<<<"s", "u", "f", "c">>,
         <<"S", "h", "e", "f", "f", "i", "e", "l", "d", " ", "U", "n", "i", "t", "e", "d">>>>,
       <<<<"b", "u", "r", "n", "l", "e", "y">>,
         <<"B", "u", "r", "n", "l", "e", "y">>>>,
       <<<<"b", "f", "c">>,
         <<"B", "u", "r", "n", "l", "e", "y">>>>
    >>

\* d[key] for a dict literal: the value written last for the key
DictGet(items, key) ==
    items[CHOOSE i \in 1..Len(items) :
            /\ items[i][1] = key
            /\ \A j \in (i + 1)..Len(items) : items[j][1] # key][2]

DictHas(items, key) == \E i \in 1..Len(items) : items[i][1] = key

\* list(d.values()): one value per key, at the place the key was first written
DictValues(items) ==
    LET firsts == { i \in 1..Len(items) :
                      \A j \in 1..(i - 1) : items[j][1] # items[i][1] }
        RECURSIVE Walk(_)
        Walk(i) == IF i > Len(items) THEN <<>>
                   ELSE IF i \in firsts
                        THEN <<DictGet(items, items[i][1])>> \o Walk(i + 1)
                        ELSE Walk(i + 1)
    IN  Walk(1)

\* def normalize_team_name(self, team_name, fuzzy_threshold: int = 80)
fuzzy_threshold == 80

\* a plausible slip: the alias table is consulted with the raw, not the
\* trimmed and lower-cased, name
normalize_team_name_raw_lookup(team_name, threshold) ==
    IF team_name = <<>> THEN [name |-> None, scored |-> 0]
    ELSE IF DictHas(TEAM_NAME_MAPPING, team_name)
         THEN [name |-> DictGet(TEAM_NAME_MAPPING, team_name), scored |-> 0]
         ELSE LET known_teams == DictValues(TEAM_NAME_MAPPING)
                  result == extractOne(team_name, known_teams)
              IN  IF result # None /\ ScoreAtLeast(result[2], threshold)
                  THEN [name |-> result[1], scored |-> Len(known_teams)]
                  ELSE [name |-> None, scored |-> Len(known_teams)]

\* a plausible slip: the best candidate is returned whatever its score
normalize_team_name_no_threshold(team_name, threshold) ==
    IF team_name = <<>> THEN [name |-> None, scored |-> 0]
    ELSE LET team_name_lower == lower(strip(team_name))
         IN  IF DictHas(TEAM_NAME_MAPPING, team_name_lower)
             THEN [name |-> DictGet(TEAM_NAME_MAPPING, team_name_lower), scored |-> 0]
             ELSE LET known_teams == DictValues(TEAM_NAME_MAPPING)
                      result == extractOne(team_name, known_teams)
                  IN  [name |-> result[1], scored |-> Len(known_teams)]

\* normalize_team_name: .name is the returned name (None when unresolved),
\* .scored the number of candidates handed to the fuzzy scorer
normalize_team_name(team_name, threshold) ==
    IF team_name = <<>> THEN [name |-> None, scored |-> 0]
    ELSE LET team_name_lower == lower(strip(team_name))
         IN  IF DictHas(TEAM_NAME_MAPPING, team_name_lower)
             THEN [name |-> DictGet(TEAM_NAME_MAPPING, team_name_lower), scored |-> 0]
             ELSE LET known_teams == DictValues(TEAM_NAME_MAPPING)
                      result == extractOne(team_name, known_teams)
                  IN  IF result # None /\ ScoreAtLeast(result[2], threshold)
                      THEN [name |-> result[1], scored |-> Len(known_teams)]
                      ELSE [name |-> None, scored |-> Len(known_teams)]

\* ---- the raw names the model feeds to normalize_team_name -------------------
\* every alias key as written, upper-cased, and each of the two with blanks
\* around it; and names that are no alias
AliasSpellings ==
    UNION { { k, upper(k), <<" ">> \o k \o <<" ">>, <<" ">> \o upper(k) \o <<" ", " ">> } :
            k \in { TEAM_NAME_MAPPING[i][1] : i \in 1..Len(TEAM_NAME_MAPPING) } }

OtherNames ==
    { <<>>,
      <<" ", " ">>,
      <<"x", "y", "z", "z", "y", "1", "2", "3">>,
      <<"L", "e", "e", "d", "s", " ", "U", "n", "i", "t", "e", "d">>,
      <<"M", "a", "n", " ", "U", "n", "i", "t", "e", "d">>,
      <<"S", "h", "e", "f", "f", "i", "e", "l", "d", " ", "U", "t", "d">>,
      <<"s", "h", "e", "f", "f", "i", "e", "l", "d", " ", "u", "t", "d">>,
      <<"A", "r", "s", "e", "n", "a", "l", " ", "F", "C">>,
      <<"N", "o", "t", "t", "m", " ", "F", "o", "r", "e", "s", "t">>,
      <<"U", "n", "i", "t", "e", "d", " ", "M", "a", "n", "c", "h", "e", "s", "t", "e", "r">>,
      <<"U", "n", "i", "t", "e", "d">>,
      <<"F", "u", "l", "m">>,
      <<"F", "C">> }

RawNames == AliasSpellings \cup OtherNames

StartNames ==
    /\ rawName \in RawNames
    /\ normalized = None
    /\ nScored = 0
    /\ npc = "input"

IdleNames ==
    /\ rawName = <<>>
    /\ normalized = None
    /\ nScored = 0
    /\ npc = "idle"

NormalizeTeamName ==
    /\ npc = "input"
    /\ LET r == normalize_team_name(rawName, fuzzy_threshold)
       IN  /\ normalized' = r.name
           /\ nScored' = r.scored
    /\ npc' = "done"
    /\ UNCHANGED <<rawName, notNames>>

NextNames == NormalizeTeamName

-----------------------------------------------------------------------------
(* C9: for every raw team name whose trimmed, lower-cased form is a key of  *)
(* the team alias table, normalize_team_name returns the canonical name     *)
(* mapped to that key, and hands nothing to the fuzzy scorer.               *)

C9_AliasBypassesFuzzy ==
    npc = "done" =>
        \A i \in 1..Len(TEAM_NAME_MAPPING) :
            (/\ TEAM_NAME_MAPPING[i][1] = lower(strip(rawName))
             /\ \A j \in (i + 1)..Len(TEAM_NAME_MAPPING) :
                    TEAM_NAME_MAPPING[j][1] # TEAM_NAME_MAPPING[i][1])
            => (normalized = TEAM_NAME_MAPPING[i][2] /\ nScored = 0)

\* ' MAN UTD  ' resolved to 'Manchester United' through the alias table
C9_Witness ==
    /\ npc = "done"
    /\ rawName = <<" ", "M", "A", "N", " ", "U", "T", "D", " ", " ">>
    /\ normalized = <<"M", "a", "n", "c", "h", "e", "s", "t", "e", "r", " ",
                      "U", "n", "i", "t", "e", "d">>
    /\ nScored = 0

(* C10: for a raw team name that is no alias and whose best fuzzy score     *)
(* over all canonical names is below the threshold (80), normalize_team_name*)
(* returns no name; it returns a fuzzy candidate only when that candidate's *)
(* score is at least the threshold and the highest of all candidates.       *)

C10_Candidates == { TEAM_NAME_MAPPING[i][2] : i \in 1..Len(TEAM_NAME_MAPPING) }

C10_BelowThresholdUnresolved ==
    (/\ npc = "done"
     /\ rawName # <<>>
     /\ \A i \in 1..Len(TEAM_NAME_MAPPING) :
            TEAM_NAME_MAPPING[i][1] # lower(strip(rawName)))
    => LET score == [c \in C10_Candidates |-> token_sort_ratio(rawName, c)]
       IN  /\ (\A c \in C10_Candidates : score[c][1] < 80 * score[c][2])
               => normalized = None
           /\ normalized # None
               => /\ normalized \in C10_Candidates
                  /\ score[normalized][1] >= 80 * score[normalized][2]
                  /\ \A c \in C10_Candidates :
                        score[c][1] * score[normalized][2]
                            <= score[normalized][1] * score[c][2]

\* 'Leeds United' is no alias and scores below 80 against every canonical
\* name (its best, 'West Ham United', scores 66.7): unresolved
C10_Witness ==
    /\ npc = "done"
    /\ rawName = <<"L", "e", "e", "d", "s", " ", "U", "n", "i", "t", "e", "d">>
    /\ nScored > 0
    /\ normalized = None

-----------------------------------------------------------------------------
(* The numeric cleaners (etl_script.py 1194-1283).  A number is the pair    *)
(* <<m, e>> standing for m / 10^e, with e as small as it can be, so that    *)
(* equal numbers are equal pairs; zero is <<0, 0>>.                          *)

Zero == <<0, 0>>

RECURSIVE Num(_, _)
\* the number m / 10^e
Num(m, e) == IF m = 0 THEN Zero
             ELSE IF e > 0 /\ m % 10 = 0 THEN Num(m \div 10, e - 1)
             ELSE <<m, e>>

IsDigit(c) == c \in {"0", "1", "2", "3", "4", "5", "6", "7", "8", "9"}

RECURSIVE DigitsValue(_)
DigitsValue(ds) ==
    IF ds = <<>> THEN 0
    ELSE 10 * DigitsValue(SubSeq(ds, 1, Len(ds) - 1)) + (Ord(ds[Len(ds)]) - 7)

RECURSIVE str(_)
\* str(n) for an integer n >= 0
str(n) == IF n < 10 THEN <<Alphabet[n + 7]>>
          ELSE str(n \div 10) \o <<Alphabet[(n % 10) + 7]>>

\* str(d) for a datetime.date d = <<year, month, day>>: 'YYYY-MM-DD'
isoformat(d) ==
    LET two(n) == IF n < 10 THEN <<"0">> \o str(n) ELSE str(n)
    IN  str(d[1]) \o <<"-">> \o two(d[2]) \o <<"-">> \o two(d[3])

\* float(value_str) for a text of digits, '.' and '-': None for ValueError
float(value_str) ==
    LET neg  == value_str # <<>> /\ Head(value_str) = "-"
        body == IF neg THEN Tail(value_str) ELSE value_str
        dot  == find(body, <<".">>)
        ip   == IF dot = 0 THEN body ELSE SubSeq(body, 1, dot - 1)
        fp   == IF dot = 0 THEN <<>> ELSE SubSeq(body, dot + 1, Len(body))
        ds   == ip \o fp
    IN  IF ds # <<>> /\ \A i \in 1..Len(ds) : IsDigit(ds[i])
        THEN Num((IF neg THEN -1 ELSE 1) * DigitsValue(ds), Len(fp))
        ELSE None

RECURSIVE int(_)
\* int(x) for a number x: truncation toward zero
int(x) == IF x[2] = 0 THEN x
          ELSE int(<<(IF x[1] < 0 THEN -((-x[1]) \div 10) ELSE x[1] \div 10), x[2] - 1>>)

\* value_str.lower() in ['null', 'none', '', 'nan'], and pd.isna(value): a
\* blank cell is the empty text
IsNullText(value_str) ==
    lower(value_str) \in { <<"n", "u", "l", "l">>, <<"n", "o", "n", "e">>,
                           <<>>, <<"n", "a", "n">> }

clean_numeric_value(value) ==
    LET value_str == strip(value)
        kept == SelectSeq(value_str, LAMBDA c : IsDigit(c) \/ c \in {".", "-"})
    IN  IF IsNullText(value_str) THEN Zero
        ELSE IF kept = <<>> \/ kept = <<"-">> \/ kept = <<".">> THEN Zero
        ELSE IF float(kept) = None THEN Zero
        ELSE float(kept)

clean_int(value) ==
    LET value_str == strip(value)
        kept == SelectSeq(value_str, LAMBDA c : IsDigit(c) \/ c = "-")
    IN  IF IsNullText(value_str) THEN Zero
        ELSE IF kept = <<>> \/ kept = <<"-">> THEN Zero
        ELSE IF float(kept) = None THEN Zero
        ELSE int(float(kept))

clean_corners(value) ==
    LET value_str == strip(value)
        kept == SelectSeq(value_str, LAMBDA c : IsDigit(c) \/ c = "-")
    IN  IF IsNullText(value_str) THEN Zero
        ELSE IF kept = <<>> \/ kept = <<"-">> THEN Zero
        ELSE IF float(kept) = None THEN Zero
        ELSE int(float(kept))
-----------------------------------------------------------------------------
(* load_match_stats (etl_script.py 1727-2615): the master match map, the    *)
(* resolution of each stats row to a match and a team, and the per-row      *)
(* upsert into match_stats.  An id is the text str() gives it; a timestamp  *)
(* is the record [date |-> <<year, month, day>>, time |-> <<hour, minute>>] *)
(* and .date() takes its date field; a dict is the sequence of its          *)
(* <<key, value>> items in insertion order.                                 *)

NaT == [date |-> <<0, 0, 0>>, time |-> <<0, 0>>]

\* d.get(key) for a dict d
get(items, key) == IF DictHas(items, key) THEN DictGet(items, key) ELSE None

\* `not x` for a text or None
Not(x) == x = None \/ x = <<>>

\* the team names of the model; Leeds is not in the team table
Team ==
    [Arsenal |-> <<"A", "r", "s", "e", "n", "a", "l">>,
     Chelsea |-> <<"C", "h", "e", "l", "s", "e", "a">>,
     Fulham  |-> <<"F", "u", "l", "h", "a", "m">>,
     Leeds   |-> <<"L", "e", "e", "d", "s">>]

\* SELECT team_id, team_name FROM team
teams_result ==
    << << <<"1">>,      Team.Arsenal >>,
       << <<"1", "2">>, Team.Chelsea >>,
       << <<"2">>,      Team.Fulham >> >>

\* team_id_map[str(team[1])] = str(team[0])
team_id_map ==
    [i \in 1..Len(teams_result) |-> <<teams_result[i][2], teams_result[i][1]>>]

\* SELECT ... FROM matches m INNER JOIN team h ... INNER JOIN team a ...
matches_result(table) ==
    LET ids == { teams_result[i][1] : i \in 1..Len(teams_result) }
    IN  SelectSeq(table, LAMBDA m : m.home_team_id \in ids /\ m.away_team_id \in ids)

\* f"{match_date}_{home_team_id}_{away_team_id}"
MatchKey(match_date, home_team_id, away_team_id) ==
    isoformat(match_date) \o <<"_">> \o home_team_id \o <<"_">> \o away_team_id

RECURSIVE build_master_match_map_last_wins(_, _)
\* a plausible slip: a later match with the same key replaces the earlier
build_master_match_map_last_wins(rows, acc) ==
    IF rows = <<>> THEN acc
    ELSE LET match == Head(rows)
             match_id == match.id
             match_date == match.date.date
             key == MatchKey(match_date, match.home_team_id, match.away_team_id)
             info == [date |-> match_date, home_team_id |-> match.home_team_id,
                      away_team_id |-> match.away_team_id]
             next ==
                 [master_match_map |-> Append(acc.master_match_map, <<key, match_id>>),
                  match_info_map |-> Append(acc.match_info_map, <<match_id, info>>),
                  duplicates |->
                      IF DictHas(acc.master_match_map, key)
                      THEN Append(acc.duplicates,
                                  [key |-> key, match_id |-> match_id,
                                   existing |-> DictGet(acc.master_match_map, key)])
                      ELSE acc.duplicates]
         IN  build_master_match_map_last_wins(Tail(rows), next)

RECURSIVE build_master_match_map(_, _)
\* the scan of matches_result: the first match of a key is kept in both maps,
\* every later one is reported (logger.error) and dropped
build_master_match_map(rows, acc) ==
    IF rows = <<>> THEN acc
    ELSE LET match == Head(rows)
             match_id == match.id
             match_date == match.date.date
             key == MatchKey(match_date, match.home_team_id, match.away_team_id)
             info == [date |-> match_date, home_team_id |-> match.home_team_id,
                      away_team_id |-> match.away_team_id]
             next ==
                 IF DictHas(acc.master_match_map, key)
                 THEN [acc EXCEPT !.duplicates =
                          Append(@, [key |-> key, match_id |-> match_id,
                                     existing |-> DictGet(acc.master_match_map, key)])]
                 ELSE [acc EXCEPT
                          !.master_match_map = Append(@, <<key, match_id>>),
                          !.match_info_map = Append(@, <<match_id, info>>)]
         IN  build_master_match_map(Tail(rows), next)

\* a plausible slip: the away team is looked up before the home team
match_csv_row_to_master_map_away_first(row, master) ==
    LET csv_home_team == row.home_team
        csv_away_team == row.away_team
        csv_date == IF row.date # NaT THEN row.date.date ELSE None
        csv_home_team_id == get(team_id_map, csv_home_team)
        csv_away_team_id == get(team_id_map, csv_away_team)
    IN  IF csv_date = None THEN <<None, <<"MAPPING_ERROR: Invalid date">>>>
        ELSE IF Not(csv_away_team_id)
        THEN <<None, <<"MAPPING_ERROR: Away team not found in database", csv_away_team>>>>
        ELSE IF Not(csv_home_team_id)
        THEN <<None, <<"MAPPING_ERROR: Home team not found in database", csv_home_team>>>>
        ELSE LET key == MatchKey(csv_date, csv_home_team_id, csv_away_team_id)
                 match_id == get(master, key)
             IN  IF Not(match_id)
                 THEN <<None, <<"MAPPING_ERROR: No exact match found for key", key>>>>
                 ELSE <<match_id, None>>

\* match_csv_row_to_master_map(row): <<match_id, None>> or <<None, reason>>
match_csv_row_to_master_map(row, master) ==
    LET csv_home_team == row.home_team
        csv_away_team == row.away_team
        csv_date == IF row.date # NaT THEN row.date.date ELSE None
        csv_home_team_id == get(team_id_map, csv_home_team)
        csv_away_team_id == get(team_id_map, csv_away_team)
    IN  IF csv_date = None THEN <<None, <<"MAPPING_ERROR: Invalid date">>>>
        ELSE IF Not(csv_home_team_id)
        THEN <<None, <<"MAPPING_ERROR: Home team not found in database", csv_home_team>>>>
        ELSE IF Not(csv_away_team_id)
        THEN <<None, <<"MAPPING_ERROR: Away team not found in database", csv_away_team>>>>
        ELSE LET key == MatchKey(csv_date, csv_home_team_id, csv_away_team_id)
                 match_id == get(master, key)
             IN  IF Not(match_id)
                 THEN <<None, <<"MAPPING_ERROR: No exact match found for key", key>>>>
                 ELSE <<match_id, None>>

\* a plausible slip: any team of the store is taken, participant or not
identify_team_id_any_team(row, info_map) ==
    LET match_id == row.match_id
        match_info == DictGet(info_map, match_id)
        csv_team_normalized == row.team_normalized
        csv_team_id == get(team_id_map, csv_team_normalized)
    IN  IF Not(match_id) THEN <<None, None>>
        ELSE IF ~DictHas(info_map, match_id)
        THEN <<None, <<"Team identification error: Match info not found">>>>
        ELSE IF Not(csv_team_id)
        THEN <<None, <<"Team identification error: Team not found in database",
                       csv_team_normalized>>>>
        ELSE <<csv_team_id, None>>

\* identify_team_id(row): <<team_id, None>> or <<None, reason>>
identify_team_id(row, info_map) ==
    LET match_id == row.match_id
        match_info == DictGet(info_map, match_id)
        csv_team_normalized == row.team_normalized
        csv_team_id == get(team_id_map, csv_team_normalized)
    IN  IF Not(match_id) THEN <<None, None>>
        ELSE IF ~DictHas(info_map, match_id)
        THEN <<None, <<"Team identification error: Match info not found">>>>
        ELSE IF Not(csv_team_id)
        THEN <<None, <<"Team identification error: Team not found in database",
                       csv_team_normalized>>>>
        ELSE IF csv_team_id = match_info.home_team_id THEN <<csv_team_id, None>>
        ELSE IF csv_team_id = match_info.away_team_id THEN <<csv_team_id, None>>
        ELSE <<None, <<"Team identification error: Team does not match home_team_id or away_team_id",
                       csv_team_normalized, csv_team_id, match_id>>>>

\* the rows of a frame at the positions of keep, in order: df[mask]
Rows(rows, keep) ==
    LET RECURSIVE Walk(_)
        Walk(i) == IF i > Len(rows) THEN <<>>
                   ELSE IF i \in keep THEN <<rows[i]>> \o Walk(i + 1)
                   ELSE Walk(i + 1)
    IN  Walk(1)

\* a plausible slip: keep='first'
drop_duplicates_keep_first(rows) ==
    Rows(rows, { i \in 1..Len(rows) :
                   \A j \in 1..(i - 1) :
                       \/ rows[j].match_id # rows[i].match_id
                       \/ rows[j].team_id # rows[i].team_id })

\* df.drop_duplicates(subset=['match_id', 'team_id'], keep='last')
drop_duplicates_last(rows) ==
    Rows(rows, { i \in 1..Len(rows) :
                   \A j \in (i + 1)..Len(rows) :
                       \/ rows[j].match_id # rows[i].match_id
                       \/ rows[j].team_id # rows[i].team_id })

\* ---- the statements of the write loop (2426-2508) ---------------------------
StatColumns ==
    << "shots_on_target", "accurate_passes", "fouls_committed", "corners",
       "possession_pct", "total_shots" >>

\* COALESCE(a, b)
Coalesce(a, b) == IF a # None THEN a ELSE b

\* the row proposed for insertion, VALUES (:match_id, :team_id,
\* COALESCE(:shots_on_target, 0), ..., :formation): EXCLUDED in DO UPDATE
Excluded(params) ==
    [match_id        |-> params.match_id,
     team_id         |-> params.team_id,
     shots_on_target |-> Coalesce(params.shots_on_target, Zero),
     accurate_passes |-> Coalesce(params.accurate_passes, Zero),
     fouls_committed |-> Coalesce(params.fouls_committed, Zero),
     corners         |-> Coalesce(params.corners, Zero),
     possession_pct  |-> Coalesce(params.possession_pct, Zero),
     total_shots     |-> Coalesce(params.total_shots, Zero),
     formation       |-> params.formation,
     updated_at      |-> None]

\* the rows of the table in conflict with the proposed row on (match_id, team_id)
Conflicts(table, params) ==
    { i \in 1..Len(table) :
        table[i].match_id = params.match_id /\ table[i].team_id = params.team_id }

\* a plausible slip: INSERT without ON CONFLICT, on a table without the index
upsert_plain_insert(table, params, at) == Append(table, Excluded(params))

\* INSERT INTO match_stats ... ON CONFLICT (match_id, team_id) DO UPDATE SET ...
upsert(table, params, at) ==
    LET EXCLUDED == Excluded(params)
    IN  IF Conflicts(table, params) = {} THEN Append(table, EXCLUDED)
        ELSE [i \in 1..Len(table) |->
                IF i \notin Conflicts(table, params) THEN table[i]
                ELSE [table[i] EXCEPT
                        !.shots_on_target = Coalesce(EXCLUDED.shots_on_target, @),
                        !.accurate_passes = Coalesce(EXCLUDED.accurate_passes, @),
                        !.fouls_committed = Coalesce(EXCLUDED.fouls_committed, @),
                        !.corners         = Coalesce(EXCLUDED.corners, Zero),
                        !.possession_pct  = Coalesce(EXCLUDED.possession_pct, @),
                        !.total_shots     = Coalesce(EXCLUDED.total_shots, @),
                        !.formation       = Coalesce(EXCLUDED.formation, @),
                        !.updated_at      = at]]

\* the cleaned value of a stat column of a row; a column the file lacks is 0
CleanCell(row, db_col) ==
    IF db_col \notin DOMAIN row.cells THEN Zero
    ELSE IF db_col = "possession_pct" THEN clean_numeric_value(row.cells[db_col])
    ELSE IF db_col = "corners" THEN clean_corners(row.cells[db_col])
    ELSE clean_int(row.cells[db_col])

\* params of the row (2401-2411); formation is None without a lineup file
Params(row) ==
    [match_id        |-> row.match_id,
     team_id         |-> row.team_id,
     shots_on_target |-> CleanCell(row, "shots_on_target"),
     accurate_passes |-> CleanCell(row, "accurate_passes"),
     fouls_committed |-> CleanCell(row, "fouls_committed"),
     corners         |-> CleanCell(row, "corners"),
     possession_pct  |-> CleanCell(row, "possession_pct"),
     total_shots     |-> CleanCell(row, "total_shots"),
     formation       |-> None]

max_retries == 3

\* ---- the stores and files the model feeds to load_match_stats ---------------
MaxMatches == 3
MaxRows == 2
MaxUpsertRows == 1
MaxRuns == 2
MaxFaults == 1

\* all sequences over S of length at most n
SeqsUpTo(S, n) == UNION { [1..k -> S] : k \in 0..n }

\* matches rows without their ids: two kick-offs on one day, one on the next,
\* and the reverse fixture
MatchUniverse ==
    { [date |-> [date |-> <<2023, 8, 19>>, time |-> <<12, 30>>],
       home_team_id |-> <<"1">>, away_team_id |-> <<"1", "2">>],
      [date |-> [date |-> <<2023, 8, 19>>, time |-> <<15, 0>>],
       home_team_id |-> <<"1">>, away_team_id |-> <<"1", "2">>],
      [date |-> [date |-> <<2023, 8, 20>>, time |-> <<15, 0>>],
       home_team_id |-> <<"1">>, away_team_id |-> <<"1", "2">>],
      [date |-> [date |-> <<2023, 8, 19>>, time |-> <<15, 0>>],
       home_team_id |-> <<"1", "2">>, away_team_id |-> <<"1">>] }

\* the matches tables: the i-th scanned row has id str(i)
MatchTables ==
    { [i \in 1..Len(t) |->
          [id |-> str(i), date |-> t[i].date,
           home_team_id |-> t[i].home_team_id, away_team_id |-> t[i].away_team_id]] :
      t \in SeqsUpTo(MatchUniverse, MaxMatches) }

\* raw stat cells: a zero-like and a non-zero spelling for every column
ZeroCells ==
    [shots_on_target |-> <<>>,
     accurate_passes |-> <<"0">>,
     fouls_committed |-> <<"n", "a", "n">>,
     corners         |-> <<" ">>,
     possession_pct  |-> <<"0", "%">>,
     total_shots     |-> <<"N", "o", "n", "e">>]

ValueCells ==
    [shots_on_target |-> <<"5">>,
     accurate_passes |-> <<"1", ",", "2", "3", "4">>,
     fouls_committed |-> <<" ", "1", "1">>,
     corners         |-> <<"7">>,
     possession_pct  |-> <<"5", "5", ".", "2", "%">>,
     total_shots     |-> <<"1", "4">>]

\* all zero-like, all non-zero, and every profile that differs from one of the
\* two in one column
CellProfiles ==
    {ZeroCells, ValueCells}
    \cup { [ZeroCells EXCEPT ![c] = ValueCells[c]] : c \in DOMAIN ZeroCells }
    \cup { [ValueCells EXCEPT ![c] = ZeroCells[c]] : c \in DOMAIN ValueCells }

\* the rows of the stats file after date parsing, fixture parsing and team
\* name normalisation (1804-1831)
StatsRows ==
    [home_team : {Team.Arsenal, Team.Leeds},
     away_team : {Team.Chelsea, Team.Leeds},
     date : { [date |-> <<2023, 8, 19>>, time |-> <<0, 0>>],
              [date |-> <<2023, 8, 20>>, time |-> <<0, 0>>] },
     team_normalized : {Team.Arsenal, Team.Fulham, Team.Leeds},
     cells : {ValueCells},
     match_id : {None},
     team_id : {None}]

UpsertRows ==
    [home_team : {Team.Arsenal},
     away_team : {Team.Chelsea},
     date : { [date |-> <<2023, 8, 19>>, time |-> <<0, 0>>] },
     team_normalized : {Team.Arsenal, Team.Chelsea},
     cells : CellProfiles,
     match_id : {None},
     team_id : {None}]

\* a match_stats row an earlier load left for match 1 and team 1
StoredRecord ==
    [match_id        |-> <<"1">>,
     team_id         |-> <<"1">>,
     shots_on_target |-> Num(3, 0),
     accurate_passes |-> Num(400, 0),
     fouls_committed |-> Num(9, 0),
     corners         |-> Num(4, 0),
     possession_pct  |-> Num(485, 1),
     total_shots     |-> Num(10, 0),
     formation       |-> <<"4", "-", "3", "-", "3">>,
     updated_at      |-> 0]

\* the state at the start of a load, whatever the stores and the file
StatsFresh ==
    /\ df = file
    /\ spc = "build"
    /\ master_match_map = <<>>
    /\ match_info_map = <<>>
    /\ duplicate_keys = <<>>
    /\ match_results = <<>>
    /\ team_results = <<>>
    /\ inserted = 0
    /\ updated = 0
    /\ failed = 0
    /\ idx = 0
    /\ attempt = 0
    /\ retry_delay = 2
    /\ row_success = FALSE
    /\ clock = 1
    /\ run = 1
    /\ applied = <<>>
    /\ tried = <<>>

\* an empty match_stats, and either any matches table with a file of at most
\* one row, or a table of at most one match with any file
StartStats ==
    /\ \/ /\ matches \in MatchTables
          /\ file \in SeqsUpTo(StatsRows, 1)
       \/ /\ matches \in { t \in MatchTables : Len(t) <= 1 }
          /\ file \in SeqsUpTo(StatsRows, MaxRows)
    /\ match_stats = <<>>
    /\ faults = MaxFaults
    /\ StatsFresh

\* one match, a file of rows of that match with any stat cells, and a
\* match_stats that is empty or holds a row of an earlier load
StartUpsert ==
    /\ matches = << [id |-> <<"1">>, date |-> [date |-> <<2023, 8, 19>>, time |-> <<15, 0>>],
                     home_team_id |-> <<"1">>, away_team_id |-> <<"1", "2">>] >>
    /\ match_stats \in { <<>>, <<StoredRecord>> }
    /\ file \in SeqsUpTo(UpsertRows, MaxUpsertRows)
    /\ faults = MaxFaults
    /\ StatsFresh

IdleStatsRun ==
    /\ match_stats = <<>>
    /\ file = <<>>
    /\ df = <<>>
    /\ spc = "idle"
    /\ master_match_map = <<>>
    /\ match_info_map = <<>>
    /\ duplicate_keys = <<>>
    /\ match_results = <<>>
    /\ team_results = <<>>
    /\ inserted = 0
    /\ updated = 0
    /\ failed = 0
    /\ idx = 0
    /\ attempt = 0
    /\ retry_delay = 2
    /\ row_success = FALSE
    /\ faults = 0
    /\ clock = 1
    /\ run = 1
    /\ applied = <<>>
    /\ tried = <<>>

IdleStats ==
    /\ matches = <<>>
    /\ IdleStatsRun

\* STEP 1 (1837-1875): scan the matches and build both maps
BuildMasterMatchMap ==
    /\ spc = "build"
    /\ LET built == build_master_match_map(matches_result(matches),
                        [master_match_map |-> <<>>, match_info_map |-> <<>>,
                         duplicates |-> <<>>])
       IN  /\ master_match_map' = built.master_match_map
           /\ match_info_map' = built.match_info_map
           /\ duplicate_keys' = built.duplicates
    /\ spc' = "match"
    /\ UNCHANGED <<matches, match_stats, file, df, match_results, team_results,
                   inserted, updated, failed, idx, attempt, retry_delay,
                   row_success, faults, clock, run, applied, tried,
                   notStats>>

\* STEP 2 (1934-1958): resolve every row to a match, drop the rejected rows
ApplyMatching ==
    /\ spc = "match"
    /\ LET results == [i \in 1..Len(df) |->
                          match_csv_row_to_master_map(df[i], master_match_map)]
           match_id == [i \in 1..Len(df) |->
                          IF Not(results[i][1]) THEN None ELSE results[i][1]]
           mapping_error == [i \in 1..Len(df) |->
                          IF Not(results[i][2]) THEN None ELSE results[i][2]]
           kept == Rows([i \in 1..Len(df) |-> [df[i] EXCEPT !.match_id = match_id[i]]],
                        { i \in 1..Len(df) : mapping_error[i] = None })
       IN  /\ match_results' = results
           /\ df' = kept
           /\ spc' = IF Len(kept) = 0 THEN "done" ELSE "identify"
    /\ UNCHANGED <<matches, match_stats, file, master_match_map, match_info_map,
                   duplicate_keys, team_results, inserted, updated, failed, idx,
                   attempt, retry_delay, row_success, faults, clock, run,
                   applied, tried,
                   notStats>>

\* STEP 3 (1993-2004): resolve every row to a team, drop the rejected rows
IdentifyTeams ==
    /\ spc = "identify"
    /\ LET results == [i \in 1..Len(df) |-> identify_team_id(df[i], match_info_map)]
           team_id_error == [i \in 1..Len(df) |->
                          IF results[i][2] = None THEN None ELSE results[i][2]]
       IN  /\ team_results' = results
           /\ df' = Rows([i \in 1..Len(df) |-> [df[i] EXCEPT !.team_id = results[i][1]]],
                         { i \in 1..Len(df) : team_id_error[i] = None })
    /\ spc' = "dedupe"
    /\ UNCHANGED <<matches, match_stats, file, master_match_map, match_info_map,
                   duplicate_keys, match_results, inserted, updated, failed, idx,
                   attempt, retry_delay, row_success, faults, clock, run,
                   applied, tried,
                   notStats>>

\* 2006-2017: keep the last row of every (match_id, team_id)
DropDuplicates ==
    /\ spc = "dedupe"
    /\ df' = drop_duplicates_last(df)
    /\ spc' = IF Len(df') = 0 THEN "done" ELSE "clean"
    /\ UNCHANGED <<matches, match_stats, file, master_match_map, match_info_map,
                   duplicate_keys, match_results, team_results, inserted, updated,
                   failed, idx, attempt, retry_delay, row_success, faults, clock,
                   run, applied, tried,
                   notStats>>

\* 2148-2247 and 2377-2424: clean the stat columns, start the write loop
CleanColumns ==
    /\ spc = "clean"
    /\ df' = [i \in 1..Len(df) |-> Params(df[i])]
    /\ inserted' = 0
    /\ updated' = 0
    /\ failed' = 0
    /\ idx' = 1
    /\ attempt' = 0
    /\ retry_delay' = 2
    /\ row_success' = FALSE
    /\ spc' = "write"
    /\ UNCHANGED <<matches, match_stats, file, master_match_map, match_info_map,
                   duplicate_keys, match_results, team_results, faults, clock,
                   run, applied, tried,
                   notStats>>

\* what one attempt of the retry loop can meet: no error; engine.begin()
\* raising; the upsert raising and then, the transaction being aborted or the
\* connection lost, the fallback INSERT raising (e2); the commit at the end
\* of the with-block raising.  _network is an OperationalError, _other is not.
Outcomes ==
    { "ok", "connect_network", "connect_other", "statement_network",
      "statement_other", "commit_network", "commit_other" }

\* one attempt of the write loop for row idx (2426-2572)
WriteAttempt ==
    /\ spc = "write"
    /\ \E outcome \in Outcomes :
        LET params == df[idx]
            last == attempt = max_retries - 1
            \* the upsert ran: updated += 1; row_success = True; break
            executed == outcome \in {"ok", "commit_network", "commit_other"}
            is_network_error ==
                outcome \in {"connect_network", "statement_network", "commit_network"}
            retry == is_network_error /\ ~last
            \* failed += 1 in an except branch
            in_handler == IF outcome \in {"connect_other", "statement_other", "commit_other"}
                             \/ (outcome = "statement_network" /\ last)
                          THEN 1 ELSE 0
            \* row_success when the loop is left
            success == CASE outcome = "ok" -> TRUE
                         [] outcome = "commit_network" -> TRUE
                         [] outcome = "connect_network" -> row_success
                         [] OTHER -> FALSE
            hit == Conflicts(match_stats, params)
        IN  /\ outcome # "ok" => faults > 0
            /\ faults' = IF outcome = "ok" THEN faults ELSE faults - 1
            /\ match_stats' = IF outcome = "ok" THEN upsert(match_stats, params, clock)
                              ELSE match_stats
            /\ clock' = IF outcome = "ok" THEN clock + 1 ELSE clock
            /\ applied' =
                 IF outcome = "ok"
                 THEN Append(applied,
                        [run |-> run, params |-> params,
                         before |-> IF hit = {} THEN <<>>
                                    ELSE <<match_stats[CHOOSE i \in hit : TRUE]>>,
                         after |-> LET t == match_stats'
                                   IN  t[CHOOSE i \in Conflicts(t, params) : TRUE]])
                 ELSE applied
            /\ updated' = updated + (IF executed THEN 1 ELSE 0)
            /\ IF retry
               THEN /\ attempt' = attempt + 1
                    /\ retry_delay' = retry_delay * 2
                    /\ row_success' = (executed \/ row_success)
                    /\ UNCHANGED <<failed, idx, spc>>
               ELSE /\ failed' = failed + in_handler + (IF success THEN 0 ELSE 1)
                    /\ idx' = idx + 1
                    /\ attempt' = 0
                    /\ retry_delay' = 2
                    /\ row_success' = FALSE
                    /\ spc' = IF idx = Len(df) THEN "done" ELSE "write"
            /\ tried' = Append(tried, [idx |-> idx, outcome |-> outcome,
                                       retry_delay |-> retry_delay',
                                       failed |-> failed'])
    /\ UNCHANGED <<matches, file, df, master_match_map, match_info_map,
                   duplicate_keys, match_results, team_results, inserted, run,
                   notStats>>

\* the program is run again on the same file
Rerun ==
    /\ spc = "done"
    /\ run < MaxRuns
    /\ run' = run + 1
    /\ df' = file
    /\ spc' = "build"
    /\ master_match_map' = <<>>
    /\ match_info_map' = <<>>
    /\ duplicate_keys' = <<>>
    /\ match_results' = <<>>
    /\ team_results' = <<>>
    /\ inserted' = 0
    /\ updated' = 0
    /\ failed' = 0
    /\ idx' = 0
    /\ tried' = <<>>
    /\ UNCHANGED <<matches, match_stats, file, attempt, retry_delay, row_success,
                   faults, clock, applied, notStats>>

NextStats ==
    \/ BuildMasterMatchMap
    \/ ApplyMatching
    \/ IdentifyTeams
    \/ DropDuplicates
    \/ CleanColumns
    \/ WriteAttempt

NextUpsert ==
    \/ BuildMasterMatchMap
    \/ ApplyMatching
    \/ IdentifyTeams
    \/ DropDuplicates
    \/ CleanColumns
    \/ WriteAttempt
    \/ Rerun

-----------------------------------------------------------------------------
(* C1: in the match_stats upsert, for each of shots_on_target,              *)
(* accurate_passes, fouls_committed, corners, possession_pct and            *)
(* total_shots, an incoming value of zero or null (a blank or NaN cell      *)
(* cleaned to 0 included) leaves a stored non-zero value of the same        *)
(* (match, team) row unchanged.                                             *)
(* The upsert does not behave so: TLC finds C1_ZeroKeepsStored violated.    *)

C1_ZeroKeepsStored ==
    \A k \in 1..Len(applied) :
        \A c \in { StatColumns[n] : n \in 1..Len(StatColumns) } :
            LET e == applied[k]
            IN  ( /\ e.before # <<>>
                  /\ e.params[c] = Zero \/ e.params[c] = None
                  /\ e.before[1][c] # Zero )
                => e.after[c] = e.before[1][c]

\* a blank possession cell was written over a stored 48.5, which is now 0
C1_Witness ==
    \E k \in 1..Len(applied) :
        /\ applied[k].before = <<StoredRecord>>
        /\ applied[k].params.possession_pct = Zero
        /\ applied[k].after.possession_pct = Zero
        /\ \E r \in 1..Len(file) : file[r].cells.possession_pct = <<"0", "%">>

-----------------------------------------------------------------------------
(* C2: two committed upserts of the same (match_id, team_id) with the same  *)
(* values, with no upsert of other values for that key in between, leave    *)
(* the same stored row (updated_at aside) as the first of them did, and     *)
(* match_stats never holds a second row for a key that was upserted.        *)

C2_SameParams(i, j) ==
    /\ i < j
    /\ applied[i].params = applied[j].params
    /\ \A k \in (i + 1)..(j - 1) :
          ( /\ applied[k].params.match_id = applied[i].params.match_id
            /\ applied[k].params.team_id = applied[i].params.team_id )
          => applied[k].params = applied[i].params

C2_UpsertIdempotent ==
    /\ \A i, j \in 1..Len(applied) :
          C2_SameParams(i, j) =>
              [applied[j].after EXCEPT !.updated_at = 0]
                  = [applied[i].after EXCEPT !.updated_at = 0]
    /\ \A k \in 1..Len(applied) :
          Cardinality(Conflicts(match_stats, applied[k].params)) = 1

\* the second load wrote the row the first load had written over a stored one
C2_Witness ==
    \E i, j \in 1..Len(applied) :
        /\ C2_SameParams(i, j)
        /\ applied[i].run = 1
        /\ applied[j].run = 2
        /\ applied[i].before = <<StoredRecord>>
        /\ applied[j].after.updated_at # applied[i].after.updated_at
        /\ applied[j].after.possession_pct = Num(552, 1)

-----------------------------------------------------------------------------
(* C5: when the master match map is built, a scanned match whose (date,     *)
(* home_team_id, away_team_id) key is already in the map is reported, and   *)
(* the map and the reverse map (match id -> match) keep the first-scanned   *)
(* match of the key, so that every row resolved through the key gets the    *)
(* first-scanned id, however many duplicates there are.                     *)

C5_SameKey(i, j) ==
    /\ matches[i].date.date = matches[j].date.date
    /\ matches[i].home_team_id = matches[j].home_team_id
    /\ matches[i].away_team_id = matches[j].away_team_id

C5_First(i) == \A j \in 1..(i - 1) : ~C5_SameKey(i, j)

C5_FirstScannedWins ==
    spc \notin {"build", "idle"} =>
        /\ \A i \in 1..Len(matches) :
              LET key == MatchKey(matches[i].date.date, matches[i].home_team_id,
                                  matches[i].away_team_id)
                  first == CHOOSE j \in 1..i : C5_SameKey(i, j) /\ C5_First(j)
              IN  /\ get(master_match_map, key) = matches[first].id
                  /\ DictHas(match_info_map, matches[i].id) <=> C5_First(i)
                  /\ ~C5_First(i) =>
                        \E d \in 1..Len(duplicate_keys) :
                            /\ duplicate_keys[d].key = key
                            /\ duplicate_keys[d].match_id = matches[i].id
                            /\ duplicate_keys[d].existing = matches[first].id
        /\ Len(duplicate_keys) = Cardinality({ i \in 1..Len(matches) : ~C5_First(i) })
        /\ \A r \in 1..Len(match_results) :
              match_results[r][1] # None =>
                  \E i \in 1..Len(matches) :
                      /\ C5_First(i)
                      /\ matches[i].id = match_results[r][1]
                      /\ matches[i].date.date = file[r].date.date
                      /\ matches[i].home_team_id = get(team_id_map, file[r].home_team)
                      /\ matches[i].away_team_id = get(team_id_map, file[r].away_team)

\* three matches of one key, two of them reported, and a row resolved to the
\* first
C5_Witness ==
    /\ Len(duplicate_keys) = 2
    /\ duplicate_keys[1].key = duplicate_keys[2].key
    /\ \E r \in 1..Len(match_results) : match_results[r][1] = matches[1].id

-----------------------------------------------------------------------------
(* C6: for every stats row match_csv_row_to_master_map returns either a     *)
(* match id or a reason, never both and never neither; the reason is 'Home  *)
(* team not found' when the home name has no id in the team table, 'Away    *)
(* team not found' when the home name has one and the away name has none,   *)
(* so a 'team not found' reason is given iff one of the two names has no    *)
(* id; and it is 'No exact match found for key' iff both names have ids     *)
(* and no scanned match has the row's (date, home id, away id).             *)

C6_Known(name) == \E t \in 1..Len(teams_result) : teams_result[t][2] = name

C6_IdOf(name) == teams_result[CHOOSE t \in 1..Len(teams_result) : teams_result[t][2] = name][1]

C6_KeyPresent(row) ==
    \E i \in 1..Len(matches) :
        /\ matches[i].date.date = row.date.date
        /\ matches[i].home_team_id = C6_IdOf(row.home_team)
        /\ matches[i].away_team_id = C6_IdOf(row.away_team)

C6_OneOfIdOrReason ==
    \A r \in 1..Len(match_results) :
        LET row == file[r]
            match_id == match_results[r][1]
            reason == match_results[r][2]
            home == "MAPPING_ERROR: Home team not found in database"
            away == "MAPPING_ERROR: Away team not found in database"
            nokey == "MAPPING_ERROR: No exact match found for key"
        IN  /\ (match_id = None) # (reason = None)
            /\ reason[1] = home <=> ~C6_Known(row.home_team)
            /\ reason[1] = away <=> C6_Known(row.home_team) /\ ~C6_Known(row.away_team)
            /\ reason[1] = home => reason[2] = row.home_team
            /\ reason[1] = away => reason[2] = row.away_team
            /\ reason[1] = nokey <=>
                  /\ C6_Known(row.home_team)
                  /\ C6_Known(row.away_team)
                  /\ ~C6_KeyPresent(row)
            /\ match_id # None =>
                  \E i \in 1..Len(matches) : matches[i].id = match_id

\* a file with a row of two unknown teams, rejected for its home team, and a
\* row of two known teams, rejected for its key
C6_Witness ==
    \E r, q \in 1..Len(match_results) :
        /\ file[r].home_team = Team.Leeds
        /\ file[r].away_team = Team.Leeds
        /\ match_results[r][2][1] = "MAPPING_ERROR: Home team not found in database"
        /\ file[q].home_team = Team.Arsenal
        /\ file[q].away_team = Team.Chelsea
        /\ match_results[q][2][1] = "MAPPING_ERROR: No exact match found for key"
        /\ Len(matches) > 0

-----------------------------------------------------------------------------
(* C7: identify_team_id gives a row a team id only if the id is the home or *)
(* the away team id of the row's match; a row of another team is rejected   *)
(* and not written: every row of match_stats written by load_match_stats    *)
(* has a team that is a participant of its match.                           *)

C7_Participant(match_id, team_id) ==
    \E i \in 1..Len(matches) :
        /\ matches[i].id = match_id
        /\ team_id \in {matches[i].home_team_id, matches[i].away_team_id}

C7_OnlyParticipantsWritten ==
    /\ spc = "dedupe" =>
          /\ \A r \in 1..Len(df) : C7_Participant(df[r].match_id, df[r].team_id)
          /\ Len(df) = Cardinality({ r \in 1..Len(team_results) : team_results[r][1] # None })
          /\ \A r \in 1..Len(team_results) :
                (team_results[r][1] = None) # (team_results[r][2] = None)
    /\ \A k \in 1..Len(match_stats) :
          C7_Participant(match_stats[k].match_id, match_stats[k].team_id)

\* a file with a row of Fulham, rejected as no participant, and a row of
\* Arsenal, written
C7_Witness ==
    /\ \E r \in 1..Len(team_results) :
          team_results[r][2][1] =
              "Team identification error: Team does not match home_team_id or away_team_id"
    /\ \E k \in 1..Len(match_stats) : match_stats[k].team_id = <<"1">>

-----------------------------------------------------------------------------
(* _auto_insert_missing_players (etl_script.py 490-679), run by two         *)
(* processes at once on one missing player each.  The existence check runs  *)
(* on a connection of its own and sees the committed rows; the insert runs  *)
(* in a transaction of its own: setval, then INSERT ... RETURNING id, then  *)
(* commit.  The store is PostgreSQL at READ COMMITTED: the sequence is not  *)
(* transactional, an INSERT in conflict with an uncommitted row waits for   *)
(* the other transaction, one in conflict with a committed row raises a     *)
(* duplicate key error.                                                     *)

Runs == {1, 2}

\* unidecode() on the accented letters of the model
Transliterations ==
    << <<"é", <<"e">>>>, <<"ñ", <<"n">>>>, <<"ú", <<"u">>>> >>

RECURSIVE unidecode(_)
unidecode(s) ==
    IF s = <<>> THEN <<>>
    ELSE (IF DictHas(Transliterations, Head(s)) THEN DictGet(Transliterations, Head(s))
          ELSE <<Head(s)>>) \o unidecode(Tail(s))

normalize_player_name(name) ==
    IF name = <<>> THEN <<>> ELSE lower(unidecode(strip(name)))

\* threshold = 85 (543, 637)
threshold == 85

\* the scan of all_team_players (545-565, 639-658): <<id, name>> of the first
\* row whose normalized name equals normalized_name, else of the first row
\* whose fuzz.ratio is at least the threshold, else None
scan_team_players(all_team_players, normalized_name) ==
    LET exact == { i \in 1..Len(all_team_players) :
                     normalize_player_name(all_team_players[i].player_name) = normalized_name }
        fuzzy == { i \in 1..Len(all_team_players) :
                     ScoreAtLeast(ratio(normalized_name,
                                        normalize_player_name(all_team_players[i].player_name)),
                                  threshold) }
        First(S) == CHOOSE i \in S : \A j \in S : i <= j
    IN  IF exact # {}
        THEN <<str(all_team_players[First(exact)].id), all_team_players[First(exact)].player_name>>
        ELSE IF fuzzy # {}
        THEN <<str(all_team_players[First(fuzzy)].id), all_team_players[First(fuzzy)].player_name>>
        ELSE None

\* SELECT id, player_name FROM players WHERE team_id = :team_id
team_players(team_id) == SelectSeq(players, LAMBDA r : r.team_id = team_id)

\* key = (normalized_name, str(team_id))
PlayerKey(p) == <<normalize_player_name(strip(prow[p].player_name)), str(prow[p].team_id)>>

\* 528-580: the existence check
CheckExisting(p) ==
    /\ ppc[p] = "check"
    /\ LET found == scan_team_players(team_players(prow[p].team_id), PlayerKey(p)[1])
       IN  IF found # None
           THEN /\ player_map' = [player_map EXCEPT ![p] = Append(@, <<PlayerKey(p), found[1]>>)]
                /\ ppc' = [ppc EXCEPT ![p] = "done"]
           ELSE /\ ppc' = [ppc EXCEPT ![p] = "setval"]
                /\ UNCHANGED player_map
    /\ UNCHANGED <<players, players_id_seq, pending, prow, pinserted, players_unique,
                   notPlayers>>

\* 585-591: begin, SELECT setval('players_id_seq', COALESCE(MAX(id), 1), true)
SetVal(p) ==
    /\ ppc[p] = "setval"
    /\ players_id_seq' =
          IF players = <<>> THEN 1
          ELSE CHOOSE m \in { players[i].id : i \in 1..Len(players) } :
                   \A i \in 1..Len(players) : players[i].id <= m
    /\ ppc' = [ppc EXCEPT ![p] = "insert"]
    /\ UNCHANGED <<players, pending, prow, player_map, pinserted, players_unique,
                   notPlayers>>

\* the row in conflict with a new row: same id (primary key), or same team and
\* name if the table has that unique constraint
InConflict(row, new) ==
    \/ row.id = new.id
    \/ players_unique /\ row.team_id = new.team_id /\ row.player_name = new.player_name

\* 595-613: INSERT INTO players ... RETURNING id, and the map update.  The
\* statement waits while an uncommitted row of the other run is in conflict;
\* a duplicate key error takes the run to the handler of 618
InsertPlayer(p) ==
    /\ ppc[p] = "insert"
    /\ LET new == [id |-> players_id_seq + 1, team_id |-> prow[p].team_id,
                   player_name |-> strip(prow[p].player_name)]
       IN  /\ \A q \in Runs \ {p} :
                 \A i \in 1..Len(pending[q]) : ~InConflict(pending[q][i], new)
           /\ players_id_seq' = players_id_seq + 1
           /\ IF \E i \in 1..Len(players) : InConflict(players[i], new)
              THEN /\ ppc' = [ppc EXCEPT ![p] = "duplicate"]
                   /\ UNCHANGED <<pending, player_map, pinserted>>
              ELSE /\ pending' = [pending EXCEPT ![p] = <<new>>]
                   /\ player_map' = [player_map EXCEPT ![p] =
                                        Append(@, <<PlayerKey(p), str(new.id)>>)]
                   /\ pinserted' = [pinserted EXCEPT ![p] = @ + 1]
                   /\ ppc' = [ppc EXCEPT ![p] = "commit"]
    /\ UNCHANGED <<players, prow, players_unique, notPlayers>>

\* the end of the with-block of 585: commit
CommitPlayer(p) ==
    /\ ppc[p] = "commit"
    /\ players' = players \o pending[p]
    /\ pending' = [pending EXCEPT ![p] = <<>>]
    /\ ppc' = [ppc EXCEPT ![p] = "done"]
    /\ UNCHANGED <<players_id_seq, prow, player_map, pinserted, players_unique,
                   notPlayers>>

\* 618-677: after a duplicate key error, look the player up again
AdoptExisting(p) ==
    /\ ppc[p] = "duplicate"
    /\ LET found == scan_team_players(team_players(prow[p].team_id), PlayerKey(p)[1])
       IN  player_map' = IF found # None
                         THEN [player_map EXCEPT ![p] = Append(@, <<PlayerKey(p), found[1]>>)]
                         ELSE player_map
    /\ ppc' = [ppc EXCEPT ![p] = "done"]
    /\ UNCHANGED <<players, players_id_seq, pending, prow, pinserted, players_unique,
                   notPlayers>>

\* ---- the stores and rows the model feeds to the two runs --------------------
\* spellings of one player, and another player
PlayerNames ==
    { <<"N", "u", "n", "e", "z">>,
      <<"N", "ú", "ñ", "e", "z">>,
      <<" ", "n", "u", "n", "e", "z">>,
      <<"S", "a", "k", "a">> }

StartPlayers ==
    /\ players \in { <<>>,
                     << [id |-> 3, team_id |-> 7,
                         player_name |-> <<"O", "d", "e", "g", "a", "a", "r", "d">>] >> }
    /\ players_id_seq \in {1, 3}
    /\ players_unique \in BOOLEAN
    /\ pending = [p \in Runs |-> <<>>]
    /\ prow \in [Runs -> [player_name : PlayerNames, team_id : {7}]]
    /\ ppc = [p \in Runs |-> "check"]
    /\ player_map = [p \in Runs |-> <<>>]
    /\ pinserted = [p \in Runs |-> 0]

IdlePlayersRun ==
    /\ players_id_seq = 1
    /\ players_unique = FALSE
    /\ pending = [p \in Runs |-> <<>>]
    /\ prow = [p \in Runs |-> [player_name |-> <<>>, team_id |-> 0]]
    /\ ppc = [p \in Runs |-> "idle"]
    /\ player_map = [p \in Runs |-> <<>>]
    /\ pinserted = [p \in Runs |-> 0]

IdlePlayers == players = <<>> /\ IdlePlayersRun

NextPlayers ==
    \/ \E p \in Runs : CheckExisting(p)
    \/ \E p \in Runs : SetVal(p)
    \/ \E p \in Runs : InsertPlayer(p)
    \/ \E p \in Runs : CommitPlayer(p)
    \/ \E p \in Runs : AdoptExisting(p)

-----------------------------------------------------------------------------
(* C3: when two runs of the player auto-creation resolve the same missing   *)
(* (normalized name, team) at once, whatever the interleaving of their      *)
(* checks and inserts, afterwards exactly one players row has that          *)
(* normalized name and team and both runs map the key to its id.            *)
(* The code does not behave so: TLC finds C3_OneRecordForRacingRuns         *)
(* violated.                                                                *)

C3_Rows(key) ==
    { i \in 1..Len(players) :
        /\ normalize_player_name(players[i].player_name) = key[1]
        /\ str(players[i].team_id) = key[2] }

C3_OneRecordForRacingRuns ==
    ( /\ \A p \in Runs : ppc[p] = "done"
      /\ PlayerKey(1) = PlayerKey(2) )
    => /\ Cardinality(C3_Rows(PlayerKey(1))) = 1
       /\ \A p \in Runs : \A i \in C3_Rows(PlayerKey(1)) :
             get(player_map[p], PlayerKey(1)) = str(players[i].id)

\* both runs resolved one name of one team, and each inserted a row for it
C3_Witness ==
    /\ \A p \in Runs : ppc[p] = "done" /\ pinserted[p] = 1
    /\ PlayerKey(1) = PlayerKey(2)
    /\ prow[1].player_name = prow[2].player_name
    /\ Cardinality(C3_Rows(PlayerKey(1))) = 2
    /\ get(player_map[1], PlayerKey(1)) # get(player_map[2], PlayerKey(1))

-----------------------------------------------------------------------------
(* load_matches (etl_script.py 1435-1615), run once and again on one file.  *)
(* A row of the file has the cells home_team, away_team, date, home_goals   *)
(* and away_goals; the optional columns (attendance, referee, youtube_id,   *)
(* matchweek) are left out, they decide nothing here.  The matches table    *)
(* returns a date as the timestamp it was given (a column of type           *)
(* timestamp), and generates the ids 1, 2, ...                              *)

\* pd.to_datetime(text, errors='coerce') on the date texts of the model:
\* 'YYYY-MM-DD', with ' HH:MM' after it or not, is that timestamp; any other
\* text is NaT
to_datetime(text) ==
    LET digits(i, j) == \A k \in i..j : IsDigit(text[k])
        n(i, j) == DigitsValue(SubSeq(text, i, j))
        date_ok == /\ Len(text) \in {10, 16}
                   /\ digits(1, 4) /\ text[5] = "-" /\ digits(6, 7)
                   /\ text[8] = "-" /\ digits(9, 10)
                   /\ n(6, 7) \in 1..12 /\ n(9, 10) \in 1..31
        time_ok == \/ Len(text) = 10
                   \/ /\ text[11] = " " /\ digits(12, 13) /\ text[14] = ":"
                      /\ digits(15, 16) /\ n(12, 13) < 24 /\ n(15, 16) < 60
    IN  IF date_ok /\ time_ok
        THEN [date |-> <<n(1, 4), n(6, 7), n(9, 10)>>,
              time |-> IF Len(text) = 10 THEN <<0, 0>> ELSE <<n(12, 13), n(15, 16)>>]
        ELSE NaT

\* a <= b on timestamps
TimestampLE(a, b) ==
    LET x == a.date \o a.time
        y == b.date \o b.time
    IN  \/ x = y
        \/ \E k \in 1..5 : x[k] < y[k] /\ \A j \in 1..(k - 1) : x[j] = y[j]

\* pd.to_numeric(cell, errors='coerce'), .fillna(0).astype(int)
to_score(cell) == IF float(cell) = None THEN 0 ELSE int(float(cell))[1]

\* 1477-1498 for one row whose names and date have been converted: no row
\* if a name is unresolved, the two names are equal or the date is NaT,
\* else the row with its scores
cleaned_match(row, home_team, away_team, date) ==
    IF \/ home_team = None
       \/ away_team = None
       \/ home_team = away_team
       \/ date = NaT
    THEN <<>>
    ELSE << [home_team |-> home_team,
             away_team |-> away_team,
             date |-> date,
             home_team_score |-> to_score(row.home_goals),
             away_team_score |-> to_score(row.away_goals)] >>

RECURSIVE clean_matches(_)
\* 1471-1498: drop the rows with a blank cell, an unresolved team name, the
\* same team twice, or an unparseable date; the others get their canonical
\* team names, timestamp and scores
clean_matches(rows) ==
    IF rows = <<>> THEN <<>>
    ELSE LET row == Head(rows)
         IN  (IF row.home_team = <<>> \/ row.away_team = <<>> \/ row.date = <<>>
              THEN <<>>
              ELSE cleaned_match(row,
                       normalize_team_name(row.home_team, fuzzy_threshold).name,
                       normalize_team_name(row.away_team, fuzzy_threshold).name,
                       to_datetime(row.date)))
             \o clean_matches(Tail(rows))

\* a plausible slip: keep='last'
drop_duplicates_first_keep_last(rows) ==
    Rows(rows, { i \in 1..Len(rows) :
                   \A j \in (i + 1)..Len(rows) :
                       \/ rows[j].home_team # rows[i].home_team
                       \/ rows[j].away_team # rows[i].away_team
                       \/ rows[j].date # rows[i].date })

\* df.drop_duplicates(subset=['home_team', 'away_team', 'date'], keep='first')
drop_duplicates_first(rows) ==
    Rows(rows, { i \in 1..Len(rows) :
                   \A j \in 1..(i - 1) :
                       \/ rows[j].home_team # rows[i].home_team
                       \/ rows[j].away_team # rows[i].away_team
                       \/ rows[j].date # rows[i].date })

\* validate_2023_24_season (1364-1433): the season's dates, the goal range,
\* and the first row of every (home_team, away_team, date)
validate_2023_24_season(rows) ==
    LET season_start == [date |-> <<2023, 8, 1>>, time |-> <<0, 0>>]
        season_end == [date |-> <<2024, 5, 31>>, time |-> <<0, 0>>]
    IN  drop_duplicates_first(
            Rows(rows, { i \in 1..Len(rows) :
                    /\ TimestampLE(season_start, rows[i].date)
                    /\ TimestampLE(rows[i].date, season_end)
                    /\ rows[i].home_team_score \in 0..10
                    /\ rows[i].away_team_score \in 0..10 }))

\* a plausible slip: the rows whose team has no id are not dropped
map_team_ids_keep_unmapped(rows) ==
    [i \in 1..Len(rows) |->
        [home_team_id |-> get(team_id_map, rows[i].home_team),
         away_team_id |-> get(team_id_map, rows[i].away_team),
         date |-> rows[i].date,
         home_team_score |-> rows[i].home_team_score,
         away_team_score |-> rows[i].away_team_score]]

\* 1541-1543: df['home_team'].map(self.team_id_map), dropna
map_team_ids(rows) ==
    Rows([i \in 1..Len(rows) |->
             [home_team_id |-> get(team_id_map, rows[i].home_team),
              away_team_id |-> get(team_id_map, rows[i].away_team),
              date |-> rows[i].date,
              home_team_score |-> rows[i].home_team_score,
              away_team_score |-> rows[i].away_team_score]],
         { i \in 1..Len(rows) :
             /\ DictHas(team_id_map, rows[i].home_team)
             /\ DictHas(team_id_map, rows[i].away_team) })

\* a plausible slip: the stored dates are compared without their time of day
existing_matches_by_day(table) ==
    { <<table[i].home_team_id, table[i].away_team_id,
        [date |-> table[i].date.date, time |-> <<0, 0>>]>> : i \in 1..Len(table) }

\* {(str(row[0]), str(row[1]), row[2]) for row in existing} (1550)
existing_matches(table) ==
    { <<table[i].home_team_id, table[i].away_team_id, table[i].date>> :
      i \in 1..Len(table) }

RECURSIVE insert_matches(_, _)
\* 1565-1600: INSERT INTO matches, row by row
insert_matches(table, rows) ==
    IF rows = <<>> THEN table
    ELSE LET new == [id |-> str(Len(table) + 1),
                     date |-> Head(rows).date,
                     home_team_id |-> Head(rows).home_team_id,
                     away_team_id |-> Head(rows).away_team_id,
                     home_team_score |-> Head(rows).home_team_score,
                     away_team_score |-> Head(rows).away_team_score]
         IN  insert_matches(Append(table, new), Tail(rows))

\* the runs of load_matches on one file
MaxLoads == 2

\* one run of load_matches on the file
LoadMatches ==
    /\ Len(matches_inserted) < MaxLoads
    /\ \E df_all \in { map_team_ids(validate_2023_24_season(clean_matches(matches_file))) } :
          LET df_new == Rows(df_all, { i \in 1..Len(df_all) :
                          <<df_all[i].home_team_id, df_all[i].away_team_id, df_all[i].date>>
                              \notin existing_matches(matches) })
          IN  /\ matches' = insert_matches(matches, df_new)
              /\ matches_inserted' = Append(matches_inserted, Len(df_new))
    /\ UNCHANGED <<matches_file, varsStatsRun, varsFixture, varsNames, varsPlayers,
                   varsPlayerStats, varsOther>>

\* ---- the stores and files the model feeds to load_matches -------------------
MaxMatchRows == 2

MatchRows ==
    [home_team : { <<"a", "r", "s", "e", "n", "a", "l">>,
                   <<"S", "p", "u", "r", "s">> },
     away_team : { <<"C", "h", "e", "l", "s", "e", "a">>,
                   <<"A", "r", "s", "e", "n", "a", "l">> },
     date : { <<"2", "0", "2", "3", "-", "0", "8", "-", "1", "9">>,
              <<"2", "0", "2", "3", "-", "0", "8", "-", "1", "9", " ", "1", "5", ":", "0", "0">>,
              <<"T", "B", "D">> },
     home_goals : { <<"3">>, <<"1", "1">> },
     away_goals : { <<"1">> }]

\* a matches table that is empty or holds one match of an earlier load
StartMatches ==
    /\ matches \in { <<>>,
                     << [id |-> <<"1">>,
                         date |-> [date |-> <<2023, 8, 19>>, time |-> <<0, 0>>],
                         home_team_id |-> <<"1">>, away_team_id |-> <<"1", "2">>,
                         home_team_score |-> 3, away_team_score |-> 1] >> }
    /\ matches_file \in SeqsUpTo(MatchRows, MaxMatchRows)
    /\ matches_inserted = <<>>

IdleMatches ==
    /\ matches_file = <<>>
    /\ matches_inserted = <<>>

NextMatches == LoadMatches

-----------------------------------------------------------------------------
(* C4: after load_matches has run twice on one file, with the teams in the  *)
(* store, the matches table holds exactly one row for every (home team,     *)
(* away team, date) of the file's rows that pass cleaning and validation,   *)
(* and the second run inserted nothing.                                     *)

C4_Loaded ==
    map_team_ids(validate_2023_24_season(clean_matches(matches_file)))

-----------------------------------------------------------------------------
(* Several rows of one file for one (match_id, team_id) (2006-2013).        *)

MaxDedupeRows == 3

\* rows of one fixture for its two teams and for a team that is not in the
\* team table, with three sets of stat cells
DedupeRows ==
    [home_team : {Team.Arsenal},
     away_team : {Team.Chelsea},
     date : { [date |-> <<2023, 8, 19>>, time |-> <<0, 0>>] },
     team_normalized : {Team.Arsenal, Team.Chelsea, Team.Leeds},
     cells : { ValueCells, ZeroCells, [ValueCells EXCEPT !.corners = <<"2">>] },
     match_id : {None},
     team_id : {None}]

\* one match, an empty match_stats and a file of rows of that match
StartDedupe ==
    /\ matches = << [id |-> <<"1">>, date |-> [date |-> <<2023, 8, 19>>, time |-> <<15, 0>>],
                     home_team_id |-> <<"1">>, away_team_id |-> <<"1", "2">>] >>
    /\ match_stats = <<>>
    /\ file \in SeqsUpTo(DedupeRows, MaxDedupeRows)
    /\ faults = MaxFaults
    /\ StatsFresh

(* C11: when several rows of the file resolve to one (match_id, team_id),   *)
(* the write loop holds exactly one row for that key, with the cleaned      *)
(* values of the last such row of the file; at most one write is committed  *)
(* for the key and it carries those values; with no store fault in the run  *)
(* no row is counted failed and every key is counted once as written.       *)

\* the (match_id, team_id) a file row resolves to, as <<row>> with both ids
\* filled in, or <<>> if the row is rejected
C11_Resolve(row) ==
    LET built == build_master_match_map(matches_result(matches),
                     [master_match_map |-> <<>>, match_info_map |-> <<>>,
                      duplicates |-> <<>>])
        m == match_csv_row_to_master_map(row, built.master_match_map)
    IN  IF m[1] = None THEN <<>>
        ELSE LET with_match == [row EXCEPT !.match_id = m[1]]
                 t == identify_team_id(with_match, built.match_info_map)
             IN  IF t[1] = None THEN <<>>
                 ELSE << [with_match EXCEPT !.team_id = t[1]] >>

\* the file rows that resolve, in file order
C11_Resolved ==
    LET RECURSIVE Walk(_)
        Walk(i) == IF i > Len(file) THEN <<>>
                   ELSE C11_Resolve(file[i]) \o Walk(i + 1)
    IN  Walk(1)

C11_LastRowWritten ==
    spc \in {"write", "done"} =>
      \A rows \in { C11_Resolved } :
        LET keys == { <<rows[i].match_id, rows[i].team_id>> : i \in 1..Len(rows) }
            last(key) == CHOOSE i \in 1..Len(rows) :
                            /\ <<rows[i].match_id, rows[i].team_id>> = key
                            /\ \A j \in (i + 1)..Len(rows) :
                                  <<rows[j].match_id, rows[j].team_id>> # key
        IN  /\ Len(df) = Cardinality(keys)
            /\ \A key \in keys :
                  /\ \E k \in 1..Len(df) : df[k] = Params(rows[last(key)])
                  /\ Cardinality({ a \in 1..Len(applied) :
                        <<applied[a].params.match_id, applied[a].params.team_id>> = key }) <= 1
                  /\ \A a \in 1..Len(applied) :
                        <<applied[a].params.match_id, applied[a].params.team_id>> = key
                            => applied[a].params = Params(rows[last(key)])
            /\ faults = MaxFaults => failed = 0
            /\ (faults = MaxFaults /\ spc = "done") =>
                  /\ inserted + updated = Cardinality(keys)
                  /\ Len(applied) = Cardinality(keys)

\* three rows, the first and the last for (match 1, Arsenal) with different
\* corners: one write for that key, with the last row's corners, none failed
C11_Witness ==
    /\ spc = "done"
    /\ Len(file) = 3
    /\ file[1].team_normalized = Team.Arsenal
    /\ file[2].team_normalized = Team.Chelsea
    /\ file[3].team_normalized = Team.Arsenal
    /\ file[1].cells = ValueCells
    /\ file[3].cells = [ValueCells EXCEPT !.corners = <<"2">>]
    /\ Len(applied) = 2
    /\ \E a \in 1..2 : /\ applied[a].params.team_id = <<"1">>
                       /\ applied[a].params.corners = Num(2, 0)
    /\ failed = 0

-----------------------------------------------------------------------------
(* The retry loop of the write (2421-2572) under repeated store faults.     *)

MaxRetryRows == 2
MaxRetryFaults == 3

\* one match, an empty match_stats, a file of one row per team of the match,
\* and a store that raises up to MaxRetryFaults errors
StartRetry ==
    /\ matches = << [id |-> <<"1">>, date |-> [date |-> <<2023, 8, 19>>, time |-> <<15, 0>>],
                     home_team_id |-> <<"1">>, away_team_id |-> <<"1", "2">>] >>
    /\ match_stats = <<>>
    /\ file \in { f \in SeqsUpTo({ r \in UpsertRows : r.cells = ValueCells }, MaxRetryRows) :
                    \A i, j \in 1..Len(f) :
                        f[i].team_normalized = f[j].team_normalized => i = j }
    /\ faults = MaxRetryFaults
    /\ StatsFresh

(* C13: in the write loop every row is attempted at most max_retries (3)    *)
(* times; after a failure classified transient (an OperationalError) that   *)
(* is not the third attempt, the row is attempted again and the delay is    *)
(* twice the delay before; a failure classified terminal is the row's last  *)
(* attempt; a row whose last attempt failed is counted failed, and the loop *)
(* goes on to the next row.                                                 *)

C13_Transient == { "connect_network", "statement_network", "commit_network" }

C13_Terminal == { "connect_other", "statement_other", "commit_other" }

C13_RetryThenFail ==
    \A i \in 1..Len(df) :
        LET at == { k \in 1..Len(tried) : tried[k].idx = i }
            first == CHOOSE k \in at : \A j \in at : k <= j
            last == CHOOSE k \in at : \A j \in at : j <= k
            finished == spc = "done" \/ idx > i
            failed_before == IF first = 1 THEN 0 ELSE tried[first - 1].failed
        IN  at # {} =>
              /\ Cardinality(at) <= max_retries
              /\ \A k \in at :
                    /\ tried[k].outcome \in C13_Terminal => (k = last /\ finished)
                    /\ tried[k].outcome = "ok" => (k = last /\ finished)
                    /\ (tried[k].outcome \in C13_Transient /\ k - first + 1 < max_retries)
                          => /\ ~(k = last /\ finished)
                             /\ tried[k].retry_delay = 2 * 2 ^ (k - first + 1)
              /\ (finished /\ tried[last].outcome # "ok")
                    => tried[last].failed > failed_before
              /\ (finished /\ i < Len(df)) => (spc = "write" /\ idx <= Len(df))
                                              \/ spc = "done"

\* three attempts of the first row meet a lost connection when the
\* transaction is opened, with delays 4 and 8 set after the first two; the
\* row is counted failed and the second row is written
C13_Witness ==
    /\ spc = "done"
    /\ Len(df) = 2
    /\ Len(tried) = 4
    /\ \A k \in 1..3 : tried[k].idx = 1 /\ tried[k].outcome = "connect_network"
    /\ tried[1].retry_delay = 4
    /\ tried[2].retry_delay = 8
    /\ tried[3].failed = 1
    /\ tried[4].outcome = "ok"
    /\ Len(match_stats) = 1

-----------------------------------------------------------------------------
(* A stats file that lacks one of the stat columns (2148-2237).             *)

\* rows of the match's two teams from a file without one stat column, all
\* other cells non-zero
AbsentColumnRows ==
    { [r EXCEPT !.cells = [c \in (DOMAIN ValueCells) \ {a} |-> ValueCells[c]]] :
      r \in { u \in UpsertRows : u.cells = ValueCells }, a \in DOMAIN ValueCells }

\* one match, a match_stats that holds the record of an earlier load, and a
\* one-row file without one stat column
StartAbsent ==
    /\ matches = << [id |-> <<"1">>, date |-> [date |-> <<2023, 8, 19>>, time |-> <<15, 0>>],
                     home_team_id |-> <<"1">>, away_team_id |-> <<"1", "2">>] >>
    /\ match_stats = <<StoredRecord>>
    /\ file \in { <<r>> : r \in AbsentColumnRows }
    /\ faults = MaxFaults
    /\ StatsFresh

(* C14: a committed write of a row of a file that lacks a stat column       *)
(* leaves that column of an already stored (match, team) record as it was.  *)

C14_AbsentColumnKept ==
    \A k \in 1..Len(applied) :
        applied[k].before # <<>> =>
            \A c \in { StatColumns[n] : n \in 1..Len(StatColumns) } :
                (\A i \in 1..Len(file) : c \notin DOMAIN file[i].cells)
                    => applied[k].after[c] = applied[k].before[1][c]

\* the file has no possession column; the stored 48.5 is 0 after the write
C14_Witness ==
    /\ spc = "done"
    /\ "possession_pct" \notin DOMAIN file[1].cells
    /\ Len(applied) = 1
    /\ applied[1].before = <<StoredRecord>>
    /\ applied[1].params.possession_pct = Zero
    /\ match_stats[1].possession_pct = Zero
    /\ match_stats[1].corners = Num(7, 0)
-----------------------------------------------------------------------------
(* load_player_stats (etl_script.py 2617-2960), the update loop: the stat   *)
(* columns are cleaned with clean_numeric_string, and every row that has a  *)
(* player_id updates its player in a transaction of its own.                *)

\* clean_numeric_string (1169-1192): None for a null cell or a text float()
\* rejects, else the number, commas and spaces removed
clean_numeric_string(value) ==
    LET value_str == strip(value)
        cleaned == SelectSeq(value_str, LAMBDA c : c \notin {",", " "})
    IN  IF IsNullText(value_str) THEN None ELSE float(cleaned)

stat_cols == <<"goals", "assists", "sofascore_rating", "xg", "xa", "rating",
               "xag", "appearances">>

\* the column of players a column of the file is written to (2900-2902)
db_col(col, columns) ==
    IF col = "rating" /\ "sofascore_rating" \notin columns
    THEN "sofascore_rating" ELSE col

\* the columns of the file that take part in the row's UPDATE (2896-2899):
\* those the file has and whose cleaned cell is not null
update_parts(row) ==
    SelectSeq(stat_cols, LAMBDA col : /\ col \in DOMAIN row.cells
                                      /\ clean_numeric_string(row.cells[col]) # None)

\* the record the row's SET list makes of a stored one (2907-2914): xag and
\* appearances by CASE WHEN :col > 0 THEN :col ELSE db_col END, the other
\* columns by COALESCE(:col, db_col), every right side over the stored values
set_player(rec, row) ==
    LET parts == update_parts(row)
        columns == DOMAIN row.cells
        from(c) == { k \in 1..Len(parts) : db_col(parts[k], columns) = c }
        assigned(c) ==
            LET col == parts[CHOOSE k \in from(c) : TRUE]
                value == clean_numeric_string(row.cells[col])
            IN  IF col \in {"xag", "appearances"}
                THEN (IF value[1] > 0 THEN value ELSE rec[c])
                ELSE Coalesce(value, rec[c])
    IN  [c \in DOMAIN rec |-> IF from(c) # {} THEN assigned(c) ELSE rec[c]]

\* UPDATE players SET ... WHERE id = :player_id (2924-2931)
update_players(table, row) ==
    [i \in 1..Len(table) |-> IF str(table[i].id) = row.player_id
                             THEN set_player(table[i], row) ELSE table[i]]

\* what a row of the loop can meet: the transaction commits, or
\* engine.begin(), the UPDATE or the commit at the end of the block raises
PlayerOutcomes == {"ok", "begin_error", "statement_error", "commit_error"}

\* the players the row's WHERE clause selects
selected(table, row) ==
    SelectSeq(table, LAMBDA p : str(p.id) = row.player_id)

\* One row of the update loop (2890-2950), abandoning the loop at the first
\* exception.
UpdatePlayer_no_except ==
    /\ player_idx \in 1..Len(player_df)
    /\ \E outcome \in PlayerOutcomes :
         LET row == player_df[player_idx]
             executes == update_parts(row) # <<>>
             met == IF outcome = "statement_error" /\ ~executes THEN "ok" ELSE outcome
         IN  /\ players' = IF met = "ok" /\ executes
                           THEN update_players(players, row) ELSE players
             /\ player_updated' = IF executes /\ met \in {"ok", "commit_error"}
                                  THEN player_updated + 1 ELSE player_updated
             /\ player_tried' = Append(player_tried,
                                       [idx |-> player_idx, outcome |-> met,
                                        before |-> selected(players, row),
                                        after |-> selected(players', row)])
             /\ player_idx' = IF met = "ok" THEN player_idx + 1
                              ELSE Len(player_df) + 1
    /\ UNCHANGED <<player_df, players_id_seq, players_unique, pending, prow, ppc,
                   player_map, pinserted, varsFixture, varsNames, varsStats,
                   varsMatches, varsOther>>

\* One row of the update loop (2890-2950): the transaction, the SET list,
\* the UPDATE when the list is not empty, updated += 1 after it and before
\* the commit, and the except branch that logs and goes on to the next row.
UpdatePlayer ==
    /\ player_idx \in 1..Len(player_df)
    /\ \E outcome \in PlayerOutcomes :
         LET row == player_df[player_idx]
             executes == update_parts(row) # <<>>
             met == IF outcome = "statement_error" /\ ~executes THEN "ok" ELSE outcome
         IN  /\ players' = IF met = "ok" /\ executes
                           THEN update_players(players, row) ELSE players
             /\ player_updated' = IF executes /\ met \in {"ok", "commit_error"}
                                  THEN player_updated + 1 ELSE player_updated
             /\ player_tried' = Append(player_tried,
                                       [idx |-> player_idx, outcome |-> met,
                                        before |-> selected(players, row),
                                        after |-> selected(players', row)])
             /\ player_idx' = player_idx + 1
    /\ UNCHANGED <<player_df, players_id_seq, players_unique, pending, prow, ppc,
                   player_map, pinserted, varsFixture, varsNames, varsStats,
                   varsMatches, varsOther>>

IdlePlayerStats ==
    /\ player_df = <<>>
    /\ player_idx = 0
    /\ player_updated = 0
    /\ player_tried = <<>>

\* the players table before the load: one player with every stat stored,
\* one with none
StoredPlayers ==
    << [id |-> 1, team_id |-> 7, player_name |-> <<"S", "a", "k", "a">>,
        goals |-> Num(14, 0), assists |-> Num(9, 0),
        sofascore_rating |-> Num(75, 1), xg |-> Num(102, 1), xa |-> Num(81, 1),
        rating |-> Num(74, 1), xag |-> Num(83, 1), appearances |-> Num(35, 0)],
       [id |-> 2, team_id |-> 7, player_name |-> <<"R", "i", "c", "e">>,
        goals |-> Zero, assists |-> Zero, sofascore_rating |-> Zero,
        xg |-> Zero, xa |-> Zero, rating |-> Zero, xag |-> Zero,
        appearances |-> Zero] >>

\* the stat cells of a row: every one a non-zero number
PlayerValueCells ==
    [goals |-> <<"1", "1">>, assists |-> <<"8">>,
     sofascore_rating |-> <<"7", ".", "2", "3">>, xg |-> <<"1", "6", ".", "4">>,
     xa |-> <<"4", ".", "7">>, rating |-> <<"7", ".", "1">>,
     xag |-> <<"5", ".", "1">>, appearances |-> <<"1", ",", "0", "3", "6">>]

\* the stat cells of a row: every one a zero or a null
PlayerZeroCells ==
    [goals |-> <<"0">>, assists |-> <<"0", ".", "0">>,
     sofascore_rating |-> <<"0", ".", "0", "0">>, xg |-> <<>>,
     xa |-> <<"n", "a", "n">>, rating |-> <<"0">>,
     xag |-> <<"0", ".", "0">>, appearances |-> <<"0">>]

\* the cells of a row: all values, all zeros or nulls, one column deviating
\* from either, and the files that lack one column
PlayerCellProfiles ==
    LET cols == DOMAIN PlayerValueCells
    IN  {PlayerValueCells, PlayerZeroCells}
        \cup { [PlayerValueCells EXCEPT ![c] = PlayerZeroCells[c]] : c \in cols }
        \cup { [PlayerValueCells EXCEPT ![c] = <<"0">>] : c \in {"xg", "xa"} }
        \cup { [PlayerZeroCells EXCEPT ![c] = PlayerValueCells[c]] : c \in cols }
        \cup { [c \in cols \ {d} |-> PlayerValueCells[c]] : d \in cols }
        \cup { [c \in cols \ {d} |-> PlayerZeroCells[c]] : d \in cols }

MaxPlayerRows == 1

\* the rows of the merged frame that reached the loop: one set of columns
\* for the whole file
PlayerRows ==
    { rows \in SeqsUpTo([player_id : {str(1), str(2)}, cells : PlayerCellProfiles],
                        MaxPlayerRows) :
        \A i, j \in 1..Len(rows) : DOMAIN rows[i].cells = DOMAIN rows[j].cells }

StartPlayerStats ==
    /\ players = StoredPlayers
    /\ player_df \in PlayerRows
    /\ player_idx = 1
    /\ player_updated = 0
    /\ player_tried = <<>>

NextPlayerStats == UpdatePlayer
-----------------------------------------------------------------------------
(* C19: in the player update of load_player_stats, for every stat column    *)
(* (goals, assists, sofascore_rating, xg, xa, rating, xag, appearances) an  *)
(* incoming zero or null leaves a stored non-zero value unchanged, and an   *)
(* incoming non-zero value replaces the stored one.                         *)

\* C19, for the columns cols: every committed update of a stored player
\* keeps a stored non-zero value against an incoming zero or null and takes
\* every incoming non-zero value
C19_Holds(cols) ==
    \A k \in 1..Len(player_tried) :
        LET t == player_tried[k]
            row == player_df[t.idx]
        IN  (t.outcome = "ok" /\ t.before # <<>>) =>
              \A col \in cols \cap DOMAIN row.cells :
                  LET c == db_col(col, DOMAIN row.cells)
                      value == clean_numeric_string(row.cells[col])
                      stored == t.before[1][c]
                      now == t.after[1][c]
                  IN  /\ (value \in {None, Zero} /\ stored # Zero) => now = stored
                      /\ value \notin {None, Zero} => now = value

\* C19: an incoming zero or null never replaces a stored non-zero value, an
\* incoming non-zero value always replaces the stored one, for all eight
\* stat columns
C19_ZeroOrNullKeepsStored ==
    C19_Holds({"goals", "assists", "sofascore_rating", "xg", "xa", "rating",
               "xag", "appearances"})

\* a committed update whose row has goals 0 for the player with 14 goals
\* stored, and the record after it
C19_Witness ==
    \E k \in 1..Len(player_tried) :
        LET t == player_tried[k]
            row == player_df[t.idx]
        IN  /\ t.outcome = "ok"
            /\ t.before # <<>>
            /\ "goals" \in DOMAIN row.cells
            /\ clean_numeric_string(row.cells["goals"]) = Zero
            /\ t.before[1].goals = Num(14, 0)
            /\ players[1].id = 1
            /\ t.after[1] = players[1]
-----------------------------------------------------------------------------
(* C12: the write loop of load_match_stats and the update loop of           *)
(* load_player_stats write each row in a transaction of its own: a failed   *)
(* write leaves the writes already committed for other keys in the table,   *)
(* and every later row is still attempted.  run() calls load_player_stats   *)
(* after load_match_stats.                                                  *)

MaxTxPlayerRows == 2

StartTransactions ==
    /\ matches = << [id |-> <<"1">>, date |-> [date |-> <<2023, 8, 19>>, time |-> <<15, 0>>],
                     home_team_id |-> <<"1">>, away_team_id |-> <<"1", "2">>] >>
    /\ match_stats = <<>>
    /\ file \in { f \in SeqsUpTo({ r \in UpsertRows : r.cells = ValueCells }, MaxRetryRows) :
                    \A i, j \in 1..Len(f) :
                        f[i].team_normalized = f[j].team_normalized => i = j }
    /\ faults = MaxFaults
    /\ StatsFresh
    /\ players = StoredPlayers
    /\ player_df \in SeqsUpTo([player_id : {str(1), str(2)},
                               cells : {PlayerValueCells}],
                              MaxTxPlayerRows)
    /\ player_idx = 1
    /\ player_updated = 0
    /\ player_tried = <<>>

\* the update loop of load_player_stats, once load_match_stats has returned
UpdatePlayers == spc = "done" /\ UpdatePlayer

NextTransactions ==
    \/ BuildMasterMatchMap
    \/ ApplyMatching
    \/ IdentifyTeams
    \/ DropDuplicates
    \/ CleanColumns
    \/ WriteAttempt
    \/ UpdatePlayers

\* C12: in every state the record of each key written so far is the one its
\* last committed write left, whatever failed since, in match_stats and in
\* players; and once a loop is over every row of its frame has been attempted
C12_RowTransactions ==
    /\ \A k \in 1..Len(applied) :
          LET params == applied[k].params
          IN  (\A j \in (k + 1)..Len(applied) :
                   ~(/\ applied[j].params.match_id = params.match_id
                     /\ applied[j].params.team_id = params.team_id))
              => \E i \in 1..Len(match_stats) : match_stats[i] = applied[k].after
    /\ spc = "done" => \A i \in 1..Len(df) : \E k \in 1..Len(tried) : tried[k].idx = i
    /\ \A i \in 1..Len(players) :
          LET own == { k \in 1..Len(player_tried) :
                         /\ player_tried[k].outcome = "ok"
                         /\ player_df[player_tried[k].idx].player_id = str(players[i].id)
                         /\ update_parts(player_df[player_tried[k].idx]) # <<>> }
          IN  IF own = {} THEN players[i] = StoredPlayers[i]
              ELSE players[i] =
                     player_tried[CHOOSE k \in own : \A j \in own : j <= k].after[1]
    /\ Len(player_tried) = (IF player_idx = 0 THEN 0 ELSE player_idx - 1)
    /\ \A k \in 1..Len(player_tried) : player_tried[k].idx = k
    /\ player_idx \in 0..(Len(player_df) + 1)

\* the first match_stats row was committed and the second failed for good,
\* the first player update failed and the second was committed, and both
\* committed writes are in their tables
C12_Witness ==
    /\ spc = "done"
    /\ Len(df) = 2
    /\ Len(applied) = 1
    /\ applied[1].params = df[1]
    /\ match_stats = <<applied[1].after>>
    /\ tried[Len(tried)].idx = 2
    /\ tried[Len(tried)].outcome = "statement_other"
    /\ failed >= 1
    /\ player_idx = 3
    /\ player_df[1].player_id = str(1)
    /\ player_df[2].player_id = str(2)
    /\ player_tried[1].outcome = "statement_error"
    /\ player_tried[2].outcome = "ok"
    /\ players[1] = StoredPlayers[1]
    /\ players[2] = player_tried[2].after[1]
    /\ players[2] # StoredPlayers[2]
-----------------------------------------------------------------------------
(* run (etl_script.py 2982-3103) and connect (342-373): the connection,     *)
(* then the seven load steps in order, each called when its input file is   *)
(* in the data directory, then the verification and the summary.            *)

connect_max_retries == 3

LoadSteps == <<"stadiums", "teams", "players", "matches", "match_events",
               "match_stats", "player_stats">>

\* the files run() looks for before it calls a step (2996-3047): a step is
\* called when one of them exists
StepFiles ==
    [stadiums     |-> {"stadiums.csv", "stadium.xlsx", "stadium.csv"},
     teams        |-> {"team.csv"},
     players      |-> {"players.csv"},
     matches      |-> {"matches.csv"},
     match_events |-> {"PlaysExport.csv"},
     match_stats  |-> {"TeamStatsExport.csv"},
     player_stats |-> {"PlayerStatsExport.csv", "premier-player-23-24.csv"}]

\* os.path.exists for one of the step's files
exists(name) == StepFiles[name] \cap data_dir # {}

notRun == <<varsFixture, varsNames, varsStats, varsMatches, varsPlayers,
            varsPlayerStats, varsLoadPlayers, varsStadiums, player_rows,
            varsMore>>

\* one attempt of connect()'s loop (350-372), and `if not self.connect():
\* return False` (2989-2991)
Connect ==
    /\ rpc = "connect"
    /\ \E established \in BOOLEAN :
         IF established
         THEN /\ connected' = TRUE
              /\ rpc' = "load"
              /\ step' = 1
              /\ UNCHANGED <<connect_attempt, run_result>>
         ELSE IF connect_attempt < connect_max_retries - 1
         THEN /\ connect_attempt' = connect_attempt + 1
              /\ UNCHANGED <<connected, rpc, step, run_result>>
         ELSE /\ rpc' = "returned"
              /\ run_result' = "False"
              /\ UNCHANGED <<connected, connect_attempt, step>>
    /\ UNCHANGED <<data_dir, steps_called, run_success, notRun>>

\* One load step of run() written with `success = success and self.load_x()`:
\* a step is not called once a step has returned False.
LoadStep_short_circuit ==
    /\ rpc = "load"
    /\ \E returned \in BOOLEAN :
         IF exists(LoadSteps[step]) /\ run_success
         THEN /\ steps_called' = Append(steps_called, LoadSteps[step])
              /\ run_success' = (run_success /\ returned)
         ELSE UNCHANGED <<steps_called, run_success>>
    /\ IF step < Len(LoadSteps)
       THEN step' = step + 1 /\ rpc' = rpc
       ELSE step' = step /\ rpc' = "verify"
    /\ UNCHANGED <<data_dir, connect_attempt, connected, run_result, notRun>>

\* One load step of run() (2996-3047): `if os.path.exists(file): success &=
\* self.load_x(file)`; every load method catches Exception and returns False
\* (831, 971, 1106, 1612, 1723, 2610, 2956).
LoadStep ==
    /\ rpc = "load"
    /\ \E returned \in BOOLEAN :
         IF exists(LoadSteps[step])
         THEN /\ steps_called' = Append(steps_called, LoadSteps[step])
              /\ run_success' = (run_success /\ returned)
         ELSE UNCHANGED <<steps_called, run_success>>
    /\ IF step < Len(LoadSteps)
       THEN step' = step + 1 /\ rpc' = rpc
       ELSE step' = step /\ rpc' = "verify"
    /\ UNCHANGED <<data_dir, connect_attempt, connected, run_result, notRun>>

\* verify_insertion, the summary and `return success and criteria_met`
\* (3050-3103)
Verify ==
    /\ rpc = "verify"
    /\ \E criteria_met \in BOOLEAN :
         run_result' = IF run_success /\ criteria_met THEN "True" ELSE "False"
    /\ rpc' = "returned"
    /\ UNCHANGED <<data_dir, connect_attempt, connected, step, steps_called, run_success,
                   notRun>>

StartRun ==
    /\ data_dir \in SUBSET (UNION { StepFiles[name] : name \in DOMAIN StepFiles })
    /\ rpc = "connect"
    /\ connect_attempt = 0
    /\ connected = FALSE
    /\ step = 0
    /\ steps_called = <<>>
    /\ run_success = TRUE
    /\ run_result = "running"

IdleRun ==
    /\ data_dir = {}
    /\ rpc = "idle"
    /\ connect_attempt = 0
    /\ connected = FALSE
    /\ step = 0
    /\ steps_called = <<>>
    /\ run_success = TRUE
    /\ run_result = "running"

IdleLoadPlayers == players_file = <<>> /\ players_loaded = <<>>

IdleStadiums == stadiums = <<>> /\ stadiums_file = <<>> /\ stadiums_loaded = <<>>

IdleResolve == player_rows = <<>>

IdleOther == IdleRun /\ IdleLoadPlayers /\ IdleStadiums /\ IdleResolve /\ IdleMore

NextRun ==
    \/ Connect
    \/ LoadStep
    \/ Verify

(* C16: run() executes no load step when connect() fails; when connect()    *)
(* succeeds it executes every load step whose input file exists, in the     *)
(* order stadiums, teams, players, matches, match events, match stats,      *)
(* player stats, also when an earlier step returned failure.                *)

\* the steps among the first n whose file exists, in the order of run()
C16_Due(n) == SelectSeq(SubSeq(LoadSteps, 1, n), exists)

\* C16: at every moment the steps called are those due so far, none before
\* the connection; a run whose connection failed returns without a step
\* called; and a run that connected goes on to call every due step
C16_EveryDueStepInOrder ==
    /\ [](/\ rpc = "connect" => steps_called = <<>>
          /\ rpc = "load" => steps_called = C16_Due(step - 1)
          /\ (rpc \in {"verify", "returned"} /\ connected)
                => steps_called = C16_Due(Len(LoadSteps))
          /\ (rpc = "returned" /\ ~connected) => steps_called = <<>>)
    /\ (connected ~> (rpc = "returned" /\ steps_called = C16_Due(Len(LoadSteps))))

\* a run that connected at the third attempt, in which the teams step
\* returned failure and the three steps after it were called all the same,
\* the stadium and player stats steps having no file
C16_Witness ==
    /\ rpc = "returned"
    /\ connected
    /\ connect_attempt = connect_max_retries - 1
    /\ ~run_success
    /\ data_dir = {"team.csv", "players.csv", "matches.csv", "TeamStatsExport.csv"}
    /\ steps_called = <<"teams", "players", "matches", "match_stats">>
-----------------------------------------------------------------------------
(* normalize_team_name_with_map (etl_script.py 1327-1362) and the rows of   *)
(* load_match_stats and load_matches whose team names do not resolve.       *)

\* PREMIER_LEAGUE_STATS_MAPPING (281-305), in the order of the dict
PREMIER_LEAGUE_STATS_MAPPING ==
    << << <<"M", "a", "n", " ", "C", "i", "t", "y">>,
          <<"M", "a", "n", "c", "h", "e", "s", "t", "e", "r", " ", "C", "i", "t", "y">> >>,
       << <<"M", "a", "n", " ", "U", "t", "d">>,
          <<"M", "a", "n", "c", "h", "e", "s", "t", "e", "r", " ", "U", "n", "i", "t", "e", "d">> >>,
       << <<"B", "r", "i", "g", "h", "t", "o", "n">>,
          <<"B", "r", "i", "g", "h", "t", "o", "n", " ", "&", " ", "H", "o", "v", "e", " ", "A", "l", "b", "i", "o", "n">> >>,
       << <<"B", "r", "i", "g", "h", "t", "o", "n", " ", "&", " ", "H", "o", "v", "e", " ", "A", "l", "b", "i", "o", "n">>,
          <<"B", "r", "i", "g", "h", "t", "o", "n", " ", "&", " ", "H", "o", "v", "e", " ", "A", "l", "b", "i", "o", "n">> >>,
       << <<"W", "e", "s", "t", " ", "H", "a", "m">>,
          <<"W", "e", "s", "t", " ", "H", "a", "m", " ", "U", "n", "i", "t", "e", "d">> >>,
       << <<"N", "e", "w", "c", "a", "s", "t", "l", "e">>,
          <<"N", "e", "w", "c", "a", "s", "t", "l", "e", " ", "U", "n", "i", "t", "e", "d">> >>,
       << <<"C", "r", "y", "s", "t", "a", "l", " ", "P", "a", "l", "a", "c", "e">>,
          <<"C", "r", "y", "s", "t", "a", "l", " ", "P", "a", "l", "a", "c", "e">> >>,
       << <<"W", "o", "l", "v", "e", "s">>,
          <<"W", "o", "l", "v", "e", "r", "h", "a", "m", "p", "t", "o", "n", " ", "W", "a", "n", "d", "e", "r", "e", "r", "s">> >>,
       << <<"W", "o", "l", "v", "e", "r", "h", "a", "m", "p", "t", "o", "n">>,
          <<"W", "o", "l", "v", "e", "r", "h", "a", "m", "p", "t", "o", "n", " ", "W", "a", "n", "d", "e", "r", "e", "r", "s">> >>,
       << <<"A", "s", "t", "o", "n", " ", "V", "i", "l", "l", "a">>,
          <<"A", "s", "t", "o", "n", " ", "V", "i", "l", "l", "a">> >>,
       << <<"B", "o", "u", "r", "n", "e", "m", "o", "u", "t", "h">>,
          <<"B", "o", "u", "r", "n", "e", "m", "o", "u", "t", "h">> >>,
       << <<"A", "F", "C", " ", "B", "o", "u", "r", "n", "e", "m", "o", "u", "t", "h">>,
          <<"B", "o", "u", "r", "n", "e", "m", "o", "u", "t", "h">> >>,
       << <<"N", "o", "t", "t", "i", "n", "g", "h", "a", "m", " ", "F", "o", "r", "e", "s", "t">>,
          <<"N", "o", "t", "t", "i", "n", "g", "h", "a", "m", " ", "F", "o", "r", "e", "s", "t">> >>,
       << <<"S", "h", "e", "f", "f", "i", "e", "l", "d", " ", "U", "t", "d">>,
          <<"S", "h", "e", "f", "f", "i", "e", "l", "d", " ", "U", "n", "i", "t", "e", "d">> >>,
       << <<"T", "o", "t", "t", "e", "n", "h", "a", "m">>,
          <<"T", "o", "t", "t", "e", "n", "h", "a", "m", " ", "H", "o", "t", "s", "p", "u", "r">> >>,
       << <<"L", "u", "t", "o", "n">>,
          <<"L", "u", "t", "o", "n", " ", "T", "o", "w", "n">> >>,
       << <<"A", "r", "s", "e", "n", "a", "l">>,
          <<"A", "r", "s", "e", "n", "a", "l">> >>,
       << <<"L", "i", "v", "e", "r", "p", "o", "o", "l">>,
          <<"L", "i", "v", "e", "r", "p", "o", "o", "l">> >>,
       << <<"C", "h", "e", "l", "s", "e", "a">>,
          <<"C", "h", "e", "l", "s", "e", "a">> >>,
       << <<"E", "v", "e", "r", "t", "o", "n">>,
          <<"E", "v", "e", "r", "t", "o", "n">> >>,
       << <<"F", "u", "l", "h", "a", "m">>,
          <<"F", "u", "l", "h", "a", "m">> >>,
       << <<"B", "r", "e", "n", "t", "f", "o", "r", "d">>,
          <<"B", "r", "e", "n", "t", "f", "o", "r", "d">> >>,
       << <<"B", "u", "r", "n", "l", "e", "y">>,
          <<"B", "u", "r", "n", "l", "e", "y">> >> >>

\* TEAM_NAME_MAP of the module team_name_map (imported at line 35): an alias
\* table from raw spellings to canonical names
TEAM_NAME_MAP ==
    << << <<"m", "a", "n", " ", "u", "t", "d">>,
          <<"M", "a", "n", "c", "h", "e", "s", "t", "e", "r", " ", "U", "n", "i", "t", "e", "d">> >>,
       << <<"g", "u", "n", "n", "e", "r", "s">>,
          <<"A", "r", "s", "e", "n", "a", "l">> >> >>

\* normalize_team_name_with_map: the alias table, exactly and then without
\* case, the stats mapping, normalize_team_name, and at last the name as given
normalize_team_name_with_map(team_name) ==
    LET team_name_str == strip(team_name)
        team_name_lower == lower(team_name_str)
        found == { i \in 1..Len(TEAM_NAME_MAP) :
                     lower(TEAM_NAME_MAP[i][1]) = team_name_lower }
        fallback == normalize_team_name(team_name_str, fuzzy_threshold).name
    IN  IF team_name = <<>> THEN None
        ELSE IF DictHas(TEAM_NAME_MAP, team_name_str)
        THEN DictGet(TEAM_NAME_MAP, team_name_str)
        ELSE IF found # {}
        THEN TEAM_NAME_MAP[CHOOSE i \in found : \A j \in found : i <= j][2]
        ELSE IF DictHas(PREMIER_LEAGUE_STATS_MAPPING, team_name_str)
        THEN DictGet(PREMIER_LEAGUE_STATS_MAPPING, team_name_str)
        ELSE IF fallback # None /\ fallback # <<>> THEN fallback
        ELSE team_name_str

\* load_matches before load_match_stats has read the store, as in run()
LoadMatchesFirst == spc = "build" /\ LoadMatches

NextUnresolved ==
    \/ LoadMatchesFirst
    \/ BuildMasterMatchMap
    \/ ApplyMatching
    \/ IdentifyTeams
    \/ DropDuplicates
    \/ CleanColumns
    \/ WriteAttempt

\* the names of the files: an alias, a name in another case, a name that
\* resolves to a team the store lacks, and a name that resolves to nothing
Gunners == <<"g", "u", "n", "n", "e", "r", "s">>
LowerChelsea == <<"c", "h", "e", "l", "s", "e", "a">>
ManUtd == <<"M", "a", "n", " ", "U", "t", "d">>
Xyzzy == <<"x", "y", "z", "z", "y", "1", "2", "3">>

MaxUnresolvedRows == 2

\* the rows of TeamStatsExport after 1811-1831: the parsed fixture and the
\* Team column as read, and their normalized names
UnresolvedStatsRows ==
    { [fixture |-> <<home, away>>,
       team |-> t,
       home_team |-> normalize_team_name_with_map(home),
       away_team |-> normalize_team_name_with_map(away),
       team_normalized |-> normalize_team_name_with_map(t),
       date |-> [date |-> <<2023, 8, 19>>, time |-> <<0, 0>>],
       cells |-> ValueCells,
       match_id |-> None,
       team_id |-> None] :
      home \in {Gunners, Xyzzy}, away \in {LowerChelsea, ManUtd},
      t \in {Team.Arsenal, LowerChelsea, Xyzzy} }

\* the rows of matches.csv
UnresolvedMatchRows ==
    [home_team : {Team.Fulham, Xyzzy},
     away_team : {LowerChelsea, ManUtd},
     date : { <<"2", "0", "2", "3", "-", "0", "9", "-", "0", "2">> },
     home_goals : { <<"0">> },
     away_goals : { <<"2">> }]

\* the store holds Arsenal v Chelsea; either a TeamStatsExport file or a
\* matches.csv is loaded
StartUnresolved ==
    /\ matches = << [id |-> <<"1">>, date |-> [date |-> <<2023, 8, 19>>, time |-> <<15, 0>>],
                     home_team_id |-> <<"1">>, away_team_id |-> <<"1", "2">>] >>
    /\ match_stats = <<>>
    /\ \E rows \in { UnresolvedStatsRows } :
         \/ /\ file \in SeqsUpTo(rows, MaxUnresolvedRows)
            /\ matches_file = <<>>
         \/ /\ file = <<>>
            /\ matches_file \in SeqsUpTo(UnresolvedMatchRows, MaxUnresolvedRows)
    /\ matches_inserted = <<>>
    /\ faults = MaxFaults
    /\ StatsFresh

(* C17: in load_match_stats and load_matches a row in which a required team *)
(* name (fixture home, fixture away, the Team column) cannot be resolved to *)
(* a team of the store is never written.                                    *)

\* the names of the files
C17_Names == {Gunners, LowerChelsea, ManUtd, Xyzzy, Team.Arsenal, Team.Fulham}

\* the id of the store's team a name resolves to by the normalizer of
\* load_match_stats, None when it resolves to no team of the store
C17_Id ==
    [name \in C17_Names |-> get(team_id_map, normalize_team_name_with_map(name))]

\* the same by the normalizer of load_matches
C17_MatchId ==
    [name \in C17_Names |->
        get(team_id_map, normalize_team_name(name, fuzzy_threshold).name)]

C17_Resolves(name) == C17_Id[name] # None

C17_ResolvesMatch(name) == C17_MatchId[name] # None

C17_IdOf(name) == C17_Id[name]

\* C17: every match_stats write comes from a row of the file whose three
\* names resolve, to the teams of the written match and the written team,
\* and there are no more writes than such rows; every matches row inserted
\* comes from a row of matches.csv whose two names resolve, to its teams
C17_UnresolvedNeverWritten ==
    /\ \A k \in 1..Len(applied) :
          \E i \in 1..Len(file) :
              /\ C17_Resolves(file[i].fixture[1])
              /\ C17_Resolves(file[i].fixture[2])
              /\ C17_Resolves(file[i].team)
              /\ applied[k].params.team_id = C17_IdOf(file[i].team)
              /\ \E m \in 1..Len(matches) :
                    /\ matches[m].id = applied[k].params.match_id
                    /\ matches[m].home_team_id = C17_IdOf(file[i].fixture[1])
                    /\ matches[m].away_team_id = C17_IdOf(file[i].fixture[2])
    /\ Len(applied) <= Cardinality({ i \in 1..Len(file) :
                                       /\ C17_Resolves(file[i].fixture[1])
                                       /\ C17_Resolves(file[i].fixture[2])
                                       /\ C17_Resolves(file[i].team) })
    /\ \A m \in 2..Len(matches) :
          \E i \in 1..Len(matches_file) :
              /\ C17_ResolvesMatch(matches_file[i].home_team)
              /\ C17_ResolvesMatch(matches_file[i].away_team)
              /\ matches[m].home_team_id = C17_MatchId[matches_file[i].home_team]
              /\ matches[m].away_team_id = C17_MatchId[matches_file[i].away_team]
    /\ Len(matches) - 1 <= Cardinality({ i \in 1..Len(matches_file) :
                                           /\ C17_ResolvesMatch(matches_file[i].home_team)
                                           /\ C17_ResolvesMatch(matches_file[i].away_team) })

\* a file whose first row has an unresolved fixture home and whose second
\* row resolves: the load is over and only the second row was written
C17_Witness ==
    /\ spc = "done"
    /\ Len(file) = 2
    /\ file[1].fixture[1] = Xyzzy
    /\ file[2].fixture = <<Gunners, LowerChelsea>>
    /\ file[2].team = LowerChelsea
    /\ Len(applied) = 1
    /\ Len(match_stats) = 1
    /\ match_stats[1].team_id = <<"1", "2">>

\* a matches.csv whose first row has a home team that resolves to nothing
\* and whose second row resolves: only the second row was inserted
C17_WitnessMatches ==
    /\ Len(matches_file) = 2
    /\ matches_file[1].home_team = Xyzzy
    /\ matches_file[2].home_team = Team.Fulham
    /\ matches_file[2].away_team = LowerChelsea
    /\ matches_inserted = <<1>>
    /\ Len(matches) = 2
    /\ matches[2].home_team_id = <<"2">>
    /\ matches[2].away_team_id = <<"1", "2">>
-----------------------------------------------------------------------------
(* load_players (etl_script.py 999-1109): the rows of players.csv are       *)
(* cleaned, the players the store already has are filtered out, and the     *)
(* others are inserted.                                                     *)

\* POSITION_MAPPING (307-318)
POSITION_MAPPING ==
    << << <<"g", "k">>, <<"G", "o", "a", "l", "k", "e", "e", "p", "e", "r">> >>,
       << <<"g", "o", "a", "l", "k", "e", "e", "p", "e", "r">>, <<"G", "o", "a", "l", "k", "e", "e", "p", "e", "r">> >>,
       << <<"d", "e", "f">>, <<"D", "e", "f", "e", "n", "d", "e", "r">> >>,
       << <<"d", "e", "f", "e", "n", "d", "e", "r">>, <<"D", "e", "f", "e", "n", "d", "e", "r">> >>,
       << <<"m", "i", "d">>, <<"M", "i", "d", "f", "i", "e", "l", "d", "e", "r">> >>,
       << <<"m", "i", "d", "f", "i", "e", "l", "d", "e", "r">>, <<"M", "i", "d", "f", "i", "e", "l", "d", "e", "r">> >>,
       << <<"f", "w", "d">>, <<"F", "o", "r", "w", "a", "r", "d">> >>,
       << <<"f", "o", "r", "w", "a", "r", "d">>, <<"F", "o", "r", "w", "a", "r", "d">> >>,
       << <<"s", "t", "r", "i", "k", "e", "r">>, <<"F", "o", "r", "w", "a", "r", "d">> >>,
       << <<"a", "t", "t", "a", "c", "k", "e", "r">>, <<"F", "o", "r", "w", "a", "r", "d">> >> >>

\* str.title() for a text of letters and blanks
title(s) ==
    [i \in 1..Len(s) |->
        IF i = 1 \/ s[i - 1] = " " THEN upper(<<s[i]>>)[1] ELSE lower(<<s[i]>>)[1]]

\* normalize_position (410-416)
normalize_position(position) ==
    IF position = <<>> THEN None
    ELSE LET position_lower == lower(strip(position))
         IN  IF DictHas(POSITION_MAPPING, position_lower)
             THEN DictGet(POSITION_MAPPING, position_lower)
             ELSE title(position)

\* 1036-1045 for one row: <<>> for a row that is dropped
cleaned_player(row, club, position, age) ==
    IF \/ club = None
       \/ position = None
       \/ age = None
       \/ ~(16 * 10 ^ age[2] <= age[1] /\ age[1] <= 50 * 10 ^ age[2])
    THEN <<>>
    ELSE << [name |-> strip(row.name), club |-> club, position |-> position,
             nationality |-> strip(row.nationality), age |-> int(age)[1]] >>

RECURSIVE clean_players(_)
\* 1036-1045: drop the rows with a blank cell, normalize, drop the rows whose
\* club or position did not normalize or whose age is not in 16..50
clean_players(rows) ==
    IF rows = <<>> THEN <<>>
    ELSE LET row == Head(rows)
         IN  (IF \E c \in DOMAIN row : row[c] = <<>>
              THEN <<>>
              ELSE cleaned_player(row,
                       normalize_team_name(row.club, fuzzy_threshold).name,
                       normalize_position(row.position),
                       float(strip(row.age))))
             \o clean_players(Tail(rows))

\* 1048-1052: the first row of every (name, club), then the team ids
unique_players(rows) ==
    LET first == Rows(rows, { i \in 1..Len(rows) :
                     \A j \in 1..(i - 1) : \/ rows[j].name # rows[i].name
                                           \/ rows[j].club # rows[i].club })
    IN  Rows([i \in 1..Len(first) |->
                 [team_id |-> get(team_id_map, first[i].club),
                  player_name |-> first[i].name,
                  position |-> first[i].position,
                  nationality |-> first[i].nationality,
                  age |-> first[i].age]],
             { i \in 1..Len(first) : DictHas(team_id_map, first[i].club) })

\* {(row[0].lower(), str(row[1])) for row in existing} (1059)
existing_players(table) ==
    { <<lower(table[i].player_name), table[i].team_id>> : i \in 1..Len(table) }

RECURSIVE insert_players(_, _)
\* 1076-1098: INSERT INTO players, row by row
insert_players(table, rows) ==
    IF rows = <<>> THEN table
    ELSE insert_players(Append(table, [id |-> Len(table) + 1] @@ Head(rows)),
                        Tail(rows))

\* one run of load_players on the file
LoadPlayers ==
    /\ Len(players_loaded) < MaxLoads
    /\ \E df_all \in { unique_players(clean_players(players_file)) } :
          LET df_new == Rows(df_all, { i \in 1..Len(df_all) :
                          <<lower(df_all[i].player_name), df_all[i].team_id>>
                              \notin existing_players(players) })
          IN  /\ players' = insert_players(players, df_new)
              /\ players_loaded' = Append(players_loaded, Len(df_new))
    /\ UNCHANGED <<players_file, players_id_seq, players_unique, pending, prow,
                   ppc, player_map, pinserted, varsFixture, varsNames, varsStats,
                   varsMatches, varsPlayerStats, varsRun, varsStadiums, player_rows,
                   varsMore>>

NextLoadPlayers == LoadPlayers

\* the players of an earlier load
StoredRoster ==
    << [id |-> 1, team_id |-> <<"1">>, player_name |-> <<"N", "u", "n", "e", "z">>,
        position |-> <<"F", "o", "r", "w", "a", "r", "d">>, nationality |-> <<"U", "r", "u", "g", "u", "a", "y">>,
        age |-> 24],
       [id |-> 2, team_id |-> <<"1">>, player_name |-> <<"S", "a", "k", "a">>,
        position |-> <<"F", "o", "r", "w", "a", "r", "d">>, nationality |-> <<"E", "n", "g", "l", "a", "n", "d">>,
        age |-> 22] >>

MaxPlayerFileRows == 2

\* the rows of players.csv: the stored names in other spellings, a new name,
\* the stored team and another, a bad position and a bad age
PlayerFileRows ==
    [name : { <<"N", "ú", "ñ", "e", "z">>, <<"N", "U", "N", "E", "Z">>,
              <<" ", "S", "a", "k", "a", " ">>, <<"R", "i", "c", "e">> },
     club : { Team.Arsenal, <<"c", "h", "e", "l", "s", "e", "a">> },
     position : { <<"f", "w", "d">>, <<"l", "e", "f", "t", " ", "w", "i", "n", "g">> },
     nationality : { <<"U", "r", "u", "g", "u", "a", "y">> },
     age : { <<"2", "4">>, <<"1", "5">> }]

StartLoadPlayers ==
    /\ players = StoredRoster
    /\ players_file \in SeqsUpTo(PlayerFileRows, MaxPlayerFileRows)
    /\ players_loaded = <<>>

(* C15: in every player identity comparison, the existence filter of        *)
(* load_players included, an incoming player whose name equals a stored     *)
(* player's name of the same team after diacritic stripping and case        *)
(* folding is treated as already existing and is not inserted again.        *)

\* C15: load_players inserts no player whose normalized name and team are
\* those of a player the store already had
C15_NormalizedEqualIsExisting ==
    \A i \in 1..Len(StoredRoster) :
        \A j \in (Len(StoredRoster) + 1)..Len(players) :
            ~(/\ players[j].team_id = players[i].team_id
              /\ normalize_player_name(players[j].player_name)
                    = normalize_player_name(players[i].player_name))

\* the same for names that differ in case and blanks only
C15_CaseFoldedIsExisting ==
    \A i \in 1..Len(StoredRoster) :
        \A j \in (Len(StoredRoster) + 1)..Len(players) :
            ~(/\ players[j].team_id = players[i].team_id
              /\ lower(players[j].player_name) = lower(players[i].player_name))

\* the store had Nunez of team 1, the file has 'Núñez' of Arsenal, and after
\* the load the store has both
C15_Witness ==
    /\ players_loaded # <<>>
    /\ Len(players_file) = 1
    /\ players_file[1].name = <<"N", "ú", "ñ", "e", "z">>
    /\ Len(players) = 3
    /\ players[1].player_name = <<"N", "u", "n", "e", "z">>
    /\ players[3].player_name = <<"N", "ú", "ñ", "e", "z">>
    /\ players[3].team_id = players[1].team_id
-----------------------------------------------------------------------------
(* load_stadiums (etl_script.py 709-834): the rows of the stadium file are  *)
(* cleaned, the stadiums the store already has are filtered out, and the    *)
(* others are inserted.                                                     *)

RECURSIVE clean_stadiums(_)
\* 743-748: drop the rows with a blank cell, strip, drop the rows whose
\* capacity is not a number above 0
clean_stadiums(rows) ==
    IF rows = <<>> THEN <<>>
    ELSE LET row == Head(rows)
             capacity == float(strip(row.capacity))
         IN  (IF \/ \E c \in DOMAIN row : row[c] = <<>>
                 \/ capacity = None
                 \/ capacity[1] <= 0
              THEN <<>>
              ELSE << [stadium_name |-> strip(row.name), city |-> strip(row.city),
                       capacity |-> int(capacity)[1]] >>)
             \o clean_stadiums(Tail(rows))

\* df.drop_duplicates(subset=['name'], keep='first') (751)
unique_stadiums(rows) ==
    Rows(rows, { i \in 1..Len(rows) :
                   \A j \in 1..(i - 1) : rows[j].stadium_name # rows[i].stadium_name })

\* {row[0].lower() for row in existing} (762)
existing_names(table) == { lower(table[i].stadium_name) : i \in 1..Len(table) }

RECURSIVE insert_stadiums(_, _)
\* 786-811: INSERT INTO stadiums, row by row
insert_stadiums(table, rows) ==
    IF rows = <<>> THEN table
    ELSE insert_stadiums(Append(table, [id |-> Len(table) + 1] @@ Head(rows)),
                         Tail(rows))

\* one run of load_stadiums on the file
LoadStadiums ==
    /\ Len(stadiums_loaded) < MaxLoads
    /\ \E df_all \in { unique_stadiums(clean_stadiums(stadiums_file)) } :
          LET df_new == Rows(df_all, { i \in 1..Len(df_all) :
                          lower(df_all[i].stadium_name) \notin existing_names(stadiums) })
          IN  /\ stadiums' = insert_stadiums(stadiums, df_new)
              /\ stadiums_loaded' = Append(stadiums_loaded, Len(df_new))
    /\ UNCHANGED <<stadiums_file, varsFixture, varsNames, varsStats, varsMatches,
                   varsPlayers, varsPlayerStats, varsRun, varsLoadPlayers,
                   player_rows, varsMore>>

NextStadiums == LoadStadiums

MaxStadiumRows == 2

\* the rows of the stadium file: one name in three spellings, another name,
\* a capacity that is no number
StadiumRows ==
    [name : { <<"A", "n", "f", "i", "e", "l", "d">>, <<"A", "N", "F", "I", "E", "L", "D">>,
              <<" ", "a", "n", "f", "i", "e", "l", "d">>, <<"E", "m", "i", "r", "a", "t", "e", "s">> },
     city : { <<"L", "i", "v", "e", "r", "p", "o", "o", "l">> },
     capacity : { <<"5", "4", "0", "7", "4">>, <<"n", ".", "a", ".">> }]

\* a store that is empty or holds one of the names
StartStadiums ==
    /\ stadiums \in { <<>>,
                      << [id |-> 1, stadium_name |-> <<"E", "m", "i", "r", "a", "t", "e", "s">>,
                          city |-> <<"L", "o", "n", "d", "o", "n">>, capacity |-> 60704] >> }
    /\ stadiums_file \in SeqsUpTo(StadiumRows, MaxStadiumRows)
    /\ stadiums_loaded = <<>>

(* C20: after load_stadiums no two stadium records have names that are      *)
(* equal ignoring case, for any input and any prior store of which that is  *)
(* true, an input with two names differing only in case, both absent from   *)
(* the store, included.                                                     *)

\* C20: no two records of the stadiums table have names equal ignoring case
C20_NoCaseInsensitiveDuplicate ==
    \A i, j \in 1..Len(stadiums) :
        lower(stadiums[i].stadium_name) = lower(stadiums[j].stadium_name) => i = j

\* the same when no two names of the file differ in case only
C20_DistinctInputHolds ==
    (\A i, j \in 1..Len(stadiums_file) :
        lower(strip(stadiums_file[i].name)) = lower(strip(stadiums_file[j].name))
            => strip(stadiums_file[i].name) = strip(stadiums_file[j].name))
    => C20_NoCaseInsensitiveDuplicate

\* the file has 'Anfield' and 'ANFIELD', the store had neither, and after the
\* load it has both
C20_Witness ==
    /\ stadiums_loaded = <<2>>
    /\ Len(stadiums_file) = 2
    /\ stadiums_file[1].name = <<"A", "n", "f", "i", "e", "l", "d">>
    /\ stadiums_file[2].name = <<"A", "N", "F", "I", "E", "L", "D">>
    /\ Len(stadiums) = 2
    /\ stadiums[1].stadium_name = <<"A", "n", "f", "i", "e", "l", "d">>
    /\ stadiums[2].stadium_name = <<"A", "N", "F", "I", "E", "L", "D">>
-----------------------------------------------------------------------------
(* load_player_stats (etl_script.py 2770-2863), the resolution of the rows  *)
(* to players: the exact lookup by normalized name and team, the fuzzy      *)
(* match of the names the store lacks (435-488), and the creation of the    *)
(* players still missing (490-679).                                         *)

\* the player of the highest fuzz.ratio with the name, at least the
\* threshold, the first scanned on ties; 0 for none (462-476, 545-565)
best_match(candidates, normalized_name) ==
    LET score(i) == ratio(normalized_name, normalize_player_name(candidates[i].player_name))
        good == { i \in 1..Len(candidates) : ScoreAtLeast(score(i), threshold) }
    IN  IF good = {} THEN 0
        ELSE candidates[CHOOSE i \in good :
                           /\ \A j \in good : ~ScoreGreater(score(j), score(i))
                           /\ \A j \in good : j < i => ScoreGreater(score(i), score(j))].id

\* player_map.get((normalize_player_name(player_name), str(team_id)))
\* (2793-2799) over the dict built from the players in order (2775-2790)
lookup_player(table, player_map_added, row) ==
    LET key == <<normalize_player_name(row.player_name), row.team_id>>
        stored == { i \in 1..Len(table) :
                      /\ normalize_player_name(table[i].player_name) = key[1]
                      /\ str(table[i].team_id) = key[2] }
    IN  IF DictHas(player_map_added, key) THEN DictGet(player_map_added, key)
        ELSE IF stored # {}
        THEN str(table[CHOOSE i \in stored : \A j \in stored : j <= i].id)
        ELSE None

\* PREMIER_LEAGUE_STATS_MAPPING.get(str(x).strip(),
\* self.normalize_team_name(str(x))) (2728, 2731, 2754, 2764)
player_stats_team(x) ==
    IF DictHas(PREMIER_LEAGUE_STATS_MAPPING, strip(x))
    THEN DictGet(PREMIER_LEAGUE_STATS_MAPPING, strip(x))
    ELSE normalize_team_name(x, fuzzy_threshold).name

\* 2764-2773: the rows with a player name and a team the store has, with
\* their team ids and normalized names
with_team_ids(rows) ==
    LET kept == { i \in 1..Len(rows) :
                    /\ rows[i].team # <<>>
                    /\ rows[i].player_name # <<>>
                    /\ player_stats_team(rows[i].team) # None
                    /\ DictHas(team_id_map, player_stats_team(rows[i].team)) }
    IN  Rows([i \in 1..Len(rows) |->
                 [src |-> i,
                  player_name |-> rows[i].player_name,
                  player_name_normalized |-> normalize_player_name(rows[i].player_name),
                  team_id |-> get(team_id_map, player_stats_team(rows[i].team)),
                  cells |-> rows[i].cells]],
             kept)

RECURSIVE fuzzy_match_missing(_, _, _, _)
\* _try_fuzzy_match_missing_players (435-488): for every missing name, with
\* the team of the first row that has it, the best match among the players
\* of that team is entered in player_map
fuzzy_match_missing(table, rows, missing, added) ==
    IF missing = {} THEN added
    ELSE LET missing_name == CHOOSE n \in missing : TRUE
             sample_row == rows[CHOOSE i \in 1..Len(rows) :
                                  /\ rows[i].player_name_normalized = missing_name
                                  /\ \A j \in 1..(i - 1) :
                                        rows[j].player_name_normalized # missing_name]
             same_team == SelectSeq(table, LAMBDA p : str(p.team_id) = sample_row.team_id)
             found == best_match(same_team, missing_name)
         IN  fuzzy_match_missing(table, rows, missing \ {missing_name},
                 IF found = 0 THEN added
                 ELSE Append(added, <<<<missing_name, sample_row.team_id>>, str(found)>>))

RECURSIVE auto_insert_missing(_, _, _)
\* _auto_insert_missing_players (490-679) for the rows in order: the first
\* row of every (normalized name, team); the player of the team with the same
\* normalized name, else the first scanned with a fuzzy match, is entered in
\* player_map, otherwise a
\* player with the name and the team only is inserted.  acc holds the table,
\* the entries added to player_map and the number inserted.
auto_insert_missing(rows, done, acc) ==
    IF rows = <<>> THEN acc
    ELSE LET row == Head(rows)
             key == <<row.player_name_normalized, row.team_id>>
             team == SelectSeq(acc.table, LAMBDA p : str(p.team_id) = row.team_id)
             found == scan_team_players(team, key[1])
             new == [id |-> Len(acc.table) + 1, team_id |-> DigitsValue(row.team_id),
                     player_name |-> strip(row.player_name),
                     goals |-> None, assists |-> None, sofascore_rating |-> None,
                     xg |-> None, xa |-> None, rating |-> None, xag |-> None,
                     appearances |-> None]
             next ==
                 IF key \in done \/ strip(row.player_name) = <<>> THEN acc
                 ELSE IF found # None
                 THEN [acc EXCEPT !.added = Append(@, <<key, found[1]>>)]
                 ELSE IF DictHas(acc.added, key) THEN acc
                 ELSE [table |-> Append(acc.table, new),
                       added |-> Append(acc.added, <<key, str(new.id)>>),
                       inserted |-> acc.inserted + 1]
         IN  auto_insert_missing(Tail(rows), done \cup {key}, next)

\* the rows of df with their player_id by the given player_map entries
mapped(table, added, rows) ==
    [i \in 1..Len(rows) |->
        [rows[i] EXCEPT !.player_id = lookup_player(table, added, rows[i])]]

\* 2764-2863 in one step: the table and the rows that reach the update loop
resolve_players(table, rows) ==
    LET df0 == [i \in 1..Len(rows) |-> [player_id |-> None] @@ rows[i]]
        df1 == mapped(table, <<>>, df0)
        players_in_csv == { df0[i].player_name_normalized : i \in 1..Len(df0) }
        players_in_db == { normalize_player_name(table[i].player_name) :
                           i \in 1..Len(table) }
        missing_players == players_in_csv \ players_in_db
        matched == fuzzy_match_missing(table, df0, missing_players, <<>>)
        df2 == mapped(table, matched, df0)
        still_missing == SelectSeq(df2, LAMBDA r :
                            /\ r.player_id = None
                            /\ r.player_name_normalized \in missing_players)
        auto == auto_insert_missing(still_missing, {},
                    [table |-> table, added |-> matched, inserted |-> 0])
        df3 == IF auto.inserted > 0 THEN mapped(auto.table, auto.added, df0) ELSE df2
    IN  IF missing_players = {}
        THEN [table |-> table, df |-> SelectSeq(df1, LAMBDA r : r.player_id # None)]
        ELSE [table |-> auto.table, df |-> SelectSeq(df3, LAMBDA r : r.player_id # None)]

\* load_player_stats up to the update loop
ResolvePlayers ==
    /\ player_idx = 0
    /\ \E resolved \in { resolve_players(players, with_team_ids(player_rows)) } :
          /\ players' = resolved.table
          /\ player_df' = resolved.df
    /\ player_idx' = 1
    /\ UNCHANGED <<varsMore, player_rows, player_updated, player_tried, players_id_seq,
                   players_unique, pending, prow, ppc, player_map, pinserted,
                   varsFixture, varsNames, varsStats, varsMatches, varsRun,
                   varsLoadPlayers, varsStadiums>>

NextResolve ==
    \/ ResolvePlayers
    \/ UpdatePlayer

\* Saka of Arsenal (team 1) and Palmer of Chelsea (team 12)
ResolveStore ==
    << [id |-> 1, team_id |-> 1, player_name |-> <<"S", "a", "k", "a">>,
        goals |-> Num(14, 0), assists |-> Num(9, 0),
        sofascore_rating |-> Num(75, 1), xg |-> Num(102, 1), xa |-> Num(81, 1),
        rating |-> Num(74, 1), xag |-> Num(83, 1), appearances |-> Num(35, 0)],
       [id |-> 2, team_id |-> 12, player_name |-> <<"P", "a", "l", "m", "e", "r">>,
        goals |-> Zero, assists |-> Zero, sofascore_rating |-> Zero,
        xg |-> Zero, xa |-> Zero, rating |-> Zero, xag |-> Zero,
        appearances |-> Zero] >>

MaxResolveRows == 2

\* the merged rows: a stored name, a name close to it, a name the store
\* lacks; the stored teams and a team the store lacks
ResolveRows ==
    [player_name : { <<"S", "a", "k", "a">>, <<"S", "a", "k", "k", "a">>, <<"R", "i", "c", "e">> },
     team : { Team.Arsenal, Team.Chelsea, <<"L", "u", "t", "o", "n">> },
     cells : { PlayerValueCells }]

StartResolve ==
    /\ players = ResolveStore
    /\ player_rows \in SeqsUpTo(ResolveRows, MaxResolveRows)
    /\ player_df = <<>>
    /\ player_idx = 0
    /\ player_updated = 0
    /\ player_tried = <<>>

(* C18: in load_player_stats the resolution of a player is scoped to the    *)
(* row's team: for every input row whose team resolves to a store team and  *)
(* whose normalized player name has neither an exact nor a fuzzy (score >=  *)
(* 85) match among the players of that team, a new minimal player (name and *)
(* team only) is created and its id is used for the row; players of other   *)
(* teams with the same normalized name do not count as existing.            *)

\* the rows of the file with a team of the store and a player name without
\* an exact or fuzzy match among the players the store had for that team
C18_Unmatched ==
    { r \in { with_team_ids(player_rows)[i] : i \in 1..Len(with_team_ids(player_rows)) } :
        best_match(SelectSeq(ResolveStore, LAMBDA p : str(p.team_id) = r.team_id),
                   r.player_name_normalized) = 0 }

\* the row reached the update loop with the id of a player created in this
\* load, of the row's team, with a name only
C18_Created(r) ==
    \E k \in 1..Len(player_df) :
        /\ player_df[k].src = r.src
        /\ \E i \in (Len(ResolveStore) + 1)..Len(players) :
              /\ str(players[i].id) = player_df[k].player_id
              /\ str(players[i].team_id) = r.team_id
              /\ ScoreAtLeast(ratio(normalize_player_name(players[i].player_name),
                                    r.player_name_normalized), threshold)

\* C18: once the rows are resolved, every unmatched row has a player created
\* for its team and carries that player's id
C18_ScopedToTeam ==
    player_idx >= 1 => \A r \in C18_Unmatched : C18_Created(r)

\* the same for the rows whose name no player of any team has
C18_UnknownNameCreated ==
    player_idx >= 1 =>
        \A r \in C18_Unmatched :
            (\A i \in 1..Len(ResolveStore) :
                normalize_player_name(ResolveStore[i].player_name) # r.player_name_normalized)
            => C18_Created(r)

\* the file has Saka of Chelsea, the store had Saka of Arsenal only, and the
\* resolution created nobody and dropped the row
C18_Witness ==
    /\ player_idx >= 1
    /\ player_rows = << [player_name |-> <<"S", "a", "k", "a">>, team |-> Team.Chelsea,
                         cells |-> PlayerValueCells] >>
    /\ players = ResolveStore
    /\ player_df = <<>>
-----------------------------------------------------------------------------
(* load_matches on files whose rows share their teams and date, or name one *)
(* team twice (1478-1479, 1410-1417).                                       *)

MaxKeyRows == 2

\* one fixture in two spellings, a row with one team twice, scores inside
\* and outside the range the validation accepts
KeyRows ==
    [home_team : { <<"a", "r", "s", "e", "n", "a", "l">>, <<"A", "r", "s", "e", "n", "a", "l">>, <<"C", "h", "e", "l", "s", "e", "a">> },
     away_team : { <<"C", "h", "e", "l", "s", "e", "a">> },
     date : { <<"2", "0", "2", "3", "-", "0", "8", "-", "1", "9">> },
     home_goals : { <<"3">>, <<"2">>, <<"1", "1">> },
     away_goals : { <<"1">> }]

StartMatchKeys ==
    /\ matches \in { <<>>,
                     << [id |-> <<"1">>,
                         date |-> [date |-> <<2023, 8, 19>>, time |-> <<0, 0>>],
                         home_team_id |-> <<"1">>, away_team_id |-> <<"1", "2">>,
                         home_team_score |-> 3, away_team_score |-> 1] >> }
    /\ matches_file \in SeqsUpTo(KeyRows, MaxKeyRows)
    /\ matches_inserted = <<>>

(* C21: load_matches never inserts a match whose home team equals its away *)
(* team, and for input rows that share (home, away, date) after            *)
(* canonicalization it inserts at most one record (the first-encountered   *)
(* row).                                                                    *)

\* the records the loads inserted: the last ones of the table
C21_Inserted ==
    LET n == IF matches_inserted = <<>> THEN 0
             ELSE IF Len(matches_inserted) = 1 THEN matches_inserted[1]
             ELSE matches_inserted[1] + matches_inserted[2]
    IN  SubSeq(matches, Len(matches) - n + 1, Len(matches))

\* the rows of the file with their canonical team ids, timestamp and scores
C21_Canonical ==
    LET rows == matches_file
        home(i) == normalize_team_name(rows[i].home_team, fuzzy_threshold).name
        away(i) == normalize_team_name(rows[i].away_team, fuzzy_threshold).name
    IN  Rows([i \in 1..Len(rows) |->
                 [home_team_id |-> get(team_id_map, home(i)),
                  away_team_id |-> get(team_id_map, away(i)),
                  date |-> to_datetime(rows[i].date),
                  home_team_score |-> to_score(rows[i].home_goals),
                  away_team_score |-> to_score(rows[i].away_goals)]],
             { i \in 1..Len(rows) :
                 /\ home(i) # None /\ away(i) # None
                 /\ to_datetime(rows[i].date) # NaT })

C21_SameKey(a, b) ==
    /\ a.home_team_id = b.home_team_id
    /\ a.away_team_id = b.away_team_id
    /\ a.date = b.date

\* the scores of the first of the given rows that has the record's key
C21_IsFirstOf(m, rows) ==
    \E i \in 1..Len(rows) :
        /\ C21_SameKey(m, rows[i])
        /\ \A j \in 1..(i - 1) : ~C21_SameKey(m, rows[j])
        /\ m.home_team_score = rows[i].home_team_score
        /\ m.away_team_score = rows[i].away_team_score

\* no inserted record has one team twice, and one key has one record
C21_KeysUnique ==
    \E ins \in { C21_Inserted } :
        /\ \A i \in 1..Len(ins) : ins[i].home_team_id # ins[i].away_team_id
        /\ \A i, j \in 1..Len(ins) : C21_SameKey(ins[i], ins[j]) => i = j

C21_Valid ==
    SelectSeq(C21_Canonical, LAMBDA r : /\ r.home_team_score \in 0..10
                                        /\ r.away_team_score \in 0..10)

C21_WitnessSameTeam ==
    /\ Len(matches_inserted) >= 1
    /\ Len(matches_file) = 2
    /\ matches_file[1].home_team = <<"C", "h", "e", "l", "s", "e", "a">>
    /\ matches_file[2].home_team = <<"a", "r", "s", "e", "n", "a", "l">>
    /\ matches_file[2].home_goals = <<"2">>
    /\ Len(matches) = 1
-----------------------------------------------------------------------------
(* The insert loops of load_matches (1563-1602), load_players (1075-1100)   *)
(* and load_stadiums (789-816) with a store that answers an INSERT with an  *)
(* error.  Each loop runs inside one "with self.engine.begin() as conn"     *)
(* block and catches IntegrityError only.  The store is PostgreSQL (line 3, *)
(* psycopg2 at 28): a statement that fails leaves the transaction aborted,  *)
(* the next statement of that transaction is refused with an error that is  *)
(* no IntegrityError, and the commit of an aborted transaction rolls back.  *)

\* what the store answers to an INSERT: success, an error SQLAlchemy raises
\* as IntegrityError, any other error
StoreOutcomes == {"ok", "integrity_error", "error"}

\* the answer to the k-th INSERT of a load
outcome_at(outcomes, k) == IF k <= Len(outcomes) THEN outcomes[k] ELSE "ok"

RECURSIVE insert_loop(_, _, _, _, _, _)
\* the loop over n rows from row k: kept are the rows inserted in the
\* transaction so far, counted is the counter inserted, aborted says that a
\* statement of the transaction has failed.  An error that is no
\* IntegrityError leaves the loop and the block, which rolls back, and the
\* load returns False from its outer handler.
insert_loop(n, outcomes, k, kept, counted, aborted) ==
    IF k > n
    THEN [executed |-> n, kept |-> IF aborted THEN {} ELSE kept,
          counted |-> counted, returned |-> TRUE]
    ELSE IF aborted \/ outcome_at(outcomes, k) = "error"
    THEN [executed |-> k, kept |-> {}, counted |-> counted, returned |-> FALSE]
    ELSE IF outcome_at(outcomes, k) = "integrity_error"
    THEN insert_loop(n, outcomes, k + 1, kept, counted, TRUE)
    ELSE insert_loop(n, outcomes, k + 1, kept \cup {k}, counted + 1, FALSE)

\* the entry of load_log for a load
logged(name, rows, looped) ==
    [load |-> name, rows |-> rows, executed |-> looped.executed,
     kept |-> looped.kept, counted |-> looped.counted,
     returned |-> looped.returned]

Loaded(name) == \E i \in 1..Len(load_log) : load_log[i].load = name

\* load_matches with the store's answers
LoadMatchesStore ==
    /\ ~Loaded("load_matches")
    /\ \E df_all \in { map_team_ids(validate_2023_24_season(clean_matches(matches_file))) } :
          LET df_new == Rows(df_all, { i \in 1..Len(df_all) :
                          <<df_all[i].home_team_id, df_all[i].away_team_id, df_all[i].date>>
                              \notin existing_matches(matches) })
              looped == insert_loop(Len(df_new), store_outcomes, 1, {}, 0, FALSE)
          IN  /\ matches' = insert_matches(matches, Rows(df_new, looped.kept))
              /\ matches_inserted' = IF looped.returned
                                     THEN Append(matches_inserted, looped.counted)
                                     ELSE matches_inserted
              /\ load_log' = Append(load_log, logged("load_matches", df_new, looped))
    /\ UNCHANGED <<restStoreLoads, matches_file, store_outcomes, varsStatsRun, varsFixture, varsNames,
                   varsPlayers, varsPlayerStats, varsRun, varsLoadPlayers,
                   varsStadiums, player_rows>>

\* load_players with the store's answers
LoadPlayersStore ==
    /\ ~Loaded("load_players")
    /\ \E df_all \in { unique_players(clean_players(players_file)) } :
          LET df_new == Rows(df_all, { i \in 1..Len(df_all) :
                          <<lower(df_all[i].player_name), df_all[i].team_id>>
                              \notin existing_players(players) })
              looped == insert_loop(Len(df_new), store_outcomes, 1, {}, 0, FALSE)
          IN  /\ players' = insert_players(players, Rows(df_new, looped.kept))
              /\ players_loaded' = IF looped.returned
                                   THEN Append(players_loaded, looped.counted)
                                   ELSE players_loaded
              /\ load_log' = Append(load_log, logged("load_players", df_new, looped))
    /\ UNCHANGED <<restStoreLoads, players_file, store_outcomes, players_id_seq, players_unique,
                   pending, prow, ppc, player_map, pinserted, varsFixture,
                   varsNames, varsStats, varsMatches, varsPlayerStats, varsRun,
                   varsStadiums, player_rows>>

\* load_stadiums with the store's answers
LoadStadiumsStore ==
    /\ ~Loaded("load_stadiums")
    /\ \E df_all \in { unique_stadiums(clean_stadiums(stadiums_file)) } :
          LET df_new == Rows(df_all, { i \in 1..Len(df_all) :
                          lower(df_all[i].stadium_name) \notin existing_names(stadiums) })
              looped == insert_loop(Len(df_new), store_outcomes, 1, {}, 0, FALSE)
          IN  /\ stadiums' = insert_stadiums(stadiums, Rows(df_new, looped.kept))
              /\ stadiums_loaded' = IF looped.returned
                                    THEN Append(stadiums_loaded, looped.counted)
                                    ELSE stadiums_loaded
              /\ load_log' = Append(load_log, logged("load_stadiums", df_new, looped))
    /\ UNCHANGED <<restStoreLoads, stadiums_file, store_outcomes, varsFixture, varsNames, varsStats,
                   varsMatches, varsPlayers, varsPlayerStats, varsRun,
                   varsLoadPlayers, player_rows>>

NextStore ==
    \/ LoadMatchesStore
    \/ LoadPlayersStore
    \/ LoadStadiumsStore

MaxInserts == 3

\* three matches, three players, three stadiums, all new to the store
StoreMatchRows ==
    << [home_team |-> Team.Arsenal, away_team |-> Team.Chelsea, date |-> <<"2", "0", "2", "3", "-", "0", "8", "-", "1", "9">>,
        home_goals |-> <<"3">>, away_goals |-> <<"1">>],
       [home_team |-> Team.Chelsea, away_team |-> Team.Fulham, date |-> <<"2", "0", "2", "3", "-", "0", "8", "-", "2", "6">>,
        home_goals |-> <<"0">>, away_goals |-> <<"0">>],
       [home_team |-> Team.Fulham, away_team |-> Team.Arsenal, date |-> <<"2", "0", "2", "3", "-", "0", "9", "-", "0", "2">>,
        home_goals |-> <<"2">>, away_goals |-> <<"2">>] >>

StorePlayerRows ==
    [i \in 1..3 |->
        [name |-> << <<"S", "a", "k", "a">>, <<"R", "i", "c", "e">>, <<"P", "a", "l", "m", "e", "r">> >>[i],
         club |-> << Team.Arsenal, Team.Arsenal, Team.Chelsea >>[i],
         position |-> <<"f", "w", "d">>,
         nationality |-> <<"E", "n", "g", "l", "a", "n", "d">>,
         age |-> <<"2", "2">>]]

StoreStadiumRows ==
    [i \in 1..3 |->
        [name |-> << <<"A", "n", "f", "i", "e", "l", "d">>, <<"E", "m", "i", "r", "a", "t", "e", "s">>, <<"E", "t", "i", "h", "a", "d">> >>[i],
         city |-> << <<"L", "i", "v", "e", "r", "p", "o", "o", "l">>, <<"L", "o", "n", "d", "o", "n">>, <<"M", "a", "n", "c", "h", "e", "s", "t", "e", "r">> >>[i],
         capacity |-> <<"5", "4", "0", "7", "4">>]]

\* every file with its first rows, every sequence of answers of the store
StartStore ==
    /\ matches = <<>>
    /\ matches_inserted = <<>>
    /\ players = <<>>
    /\ players_loaded = <<>>
    /\ stadiums = <<>>
    /\ stadiums_loaded = <<>>
    /\ \E n \in 2..3 :
          /\ matches_file = SubSeq(StoreMatchRows, 1, n)
          /\ players_file = SubSeq(StorePlayerRows, 1, n)
          /\ stadiums_file = SubSeq(StoreStadiumRows, 1, n)
    /\ store_outcomes \in [1..MaxInserts -> StoreOutcomes]
    /\ load_log = <<>>

(* C22: in load_matches (and likewise load_players, load_teams,             *)
(* load_stadiums), a store error raised by the insert of one row does not   *)
(* abort the batch: the rows inserted before the failing row remain         *)
(* persisted when the operation ends and the rows after it are still        *)
(* attempted.                                                               *)

\* the table a load writes
C22_Table(name) ==
    IF name = "load_matches" THEN matches
    ELSE IF name = "load_players" THEN players
    ELSE stadiums

\* the row of a load is in the table
C22_Persisted(e, j) ==
    \E t \in { C22_Table(e.load) } : \E i \in 1..Len(t) :
        \A c \in DOMAIN e.rows[j] : t[i][c] = e.rows[j][c]

\* the first row of the load whose INSERT the store answered with an error
C22_FirstError(e, k) ==
    /\ k \in 1..Len(e.rows)
    /\ outcome_at(store_outcomes, k) # "ok"
    /\ \A j \in 1..(k - 1) : outcome_at(store_outcomes, j) = "ok"

\* C22: after a load whose k-th INSERT raised a store error, the rows before
\* k are in the table and every row of the load was executed
C22_RowErrorDoesNotAbort ==
    \A n \in 1..Len(load_log) : \A e \in { load_log[n] } :
        \A k \in 1..Len(e.rows) :
            C22_FirstError(e, k) =>
                /\ \A j \in 1..(k - 1) : C22_Persisted(e, j)
                /\ e.executed = Len(e.rows)

\* the part that holds: a load the store answers without an error persists
\* every row, and a load that met an error persists none
C22_AllOrNothing ==
    \A n \in 1..Len(load_log) : \A e \in { load_log[n] } :
        IF \A k \in 1..Len(e.rows) : outcome_at(store_outcomes, k) = "ok"
        THEN e.returned /\ \A j \in 1..Len(e.rows) : C22_Persisted(e, j)
        ELSE \A j \in 1..Len(e.rows) : ~C22_Persisted(e, j)

\* load_matches on three rows, the second INSERT answered with an error that
\* is no IntegrityError: the load returned False, the third row was never
\* executed and the table is empty
C22_Witness ==
    /\ Loaded("load_matches")
    /\ Len(matches_file) = 3
    /\ store_outcomes = <<"ok", "error", "ok">>
    /\ matches = <<>>
    /\ \E n \in 1..Len(load_log) :
          /\ load_log[n].load = "load_matches"
          /\ Len(load_log[n].rows) = 3
          /\ load_log[n].executed = 2
          /\ ~load_log[n].returned

\* load_players on three rows, the second INSERT answered with an
\* IntegrityError: the third INSERT was refused and the table is empty
C22_WitnessIntegrity ==
    /\ Loaded("load_players")
    /\ Len(players_file) = 3
    /\ store_outcomes = <<"ok", "integrity_error", "ok">>
    /\ players = <<>>
    /\ \E n \in 1..Len(load_log) :
          /\ load_log[n].load = "load_players"
          /\ Len(load_log[n].rows) = 3
          /\ load_log[n].executed = 3
          /\ ~load_log[n].returned
-----------------------------------------------------------------------------
(* _auto_insert_missing_players (490-679), one run, row by row, with a      *)
(* store that can fail at every step of a row.  A uniqueness violation is   *)
(* the business of the two runs at once above and is left out here.         *)

\* what a row meets: nothing, or an error of the SELECT of the team's
\* players (528-537), of setval (584-588), of the INSERT (592-602), or of
\* the commit that ends the "with self.engine.begin()" block (582-610)
AutoOutcomes == {"ok", "check_error", "setval_error", "insert_error", "commit_error"}

\* int(row['team_id']) (520) raises ValueError unless the text is a numeral
int_raises(team_id) == team_id = <<>> \/ \E i \in 1..Len(team_id) : ~IsDigit(team_id[i])

\* the handler at 618-677 for an error that is no uniqueness violation: it
\* reads the local variable key (675), which is unbound if no row has come
\* to line 527 yet, and the read raises UnboundLocalError out of the function
handler_raises(key_var) == key_var = <<>>

\* one row of the loop at 517-677
AutoInsertRow ==
    /\ ins_result = "running"
    /\ ins_idx \in 1..Len(insertable)
    /\ \E met \in AutoOutcomes :
          LET row == insertable[ins_idx]
              player_name == strip(row.player_name)
              key == <<normalize_player_name(player_name), str(DigitsValue(row.team_id))>>
              team == SelectSeq(players, LAMBDA p : str(p.team_id) = key[2])
              found == scan_team_players(team, key[1])
              new == [id |-> Len(players) + 1, team_id |-> DigitsValue(row.team_id),
                      player_name |-> player_name,
                      goals |-> None, assists |-> None, sofascore_rating |-> None,
                      xg |-> None, xa |-> None, rating |-> None, xag |-> None,
                      appearances |-> None]
              continue(what) ==
                  /\ ins_idx' = ins_idx + 1
                  /\ ins_tried' = Append(ins_tried, [row |-> ins_idx, met |-> what])
                  /\ ins_result' = "running"
          IN  IF int_raises(row.team_id)
              THEN /\ IF handler_raises(ins_key)
                      THEN /\ ins_result' = "raised"
                           /\ ins_tried' = Append(ins_tried, [row |-> ins_idx, met |-> "int_error"])
                           /\ ins_idx' = ins_idx
                      ELSE continue("int_error")
                   /\ UNCHANGED <<players, ins_key, ins_map, ins_count>>
              ELSE IF player_name = <<>>
              THEN /\ continue("no_name")
                   /\ UNCHANGED <<players, ins_key, ins_map, ins_count>>
              ELSE /\ ins_key' = <<key>>
                   /\ IF met = "check_error"
                      THEN /\ continue(met)
                           /\ UNCHANGED <<players, ins_map, ins_count>>
                      ELSE IF found # None
                      THEN /\ continue("found")
                           /\ ins_map' = Append(ins_map, <<key, found[1]>>)
                           /\ UNCHANGED <<players, ins_count>>
                      ELSE IF DictHas(ins_map, key)
                      THEN /\ continue("mapped")
                           /\ UNCHANGED <<players, ins_map, ins_count>>
                      ELSE IF met \in {"setval_error", "insert_error"}
                      THEN /\ continue(met)
                           /\ UNCHANGED <<players, ins_map, ins_count>>
                      ELSE /\ continue(met)
                           /\ ins_map' = Append(ins_map, <<key, str(new.id)>>)
                           /\ ins_count' = ins_count + 1
                           /\ players' = IF met = "commit_error" THEN players
                                         ELSE Append(players, new)
    /\ UNCHANGED <<insertable, restAuto, players_id_seq, players_unique, pending,
                   prow, ppc, player_map, pinserted, varsFixture, varsNames,
                   varsStats, varsMatches, varsPlayerStats, varsRun,
                   varsLoadPlayers, varsStadiums, player_rows>>

\* return inserted (679)
AutoInsertReturn ==
    /\ ins_result = "running"
    /\ ins_idx = Len(insertable) + 1
    /\ ins_result' = "returned"
    /\ UNCHANGED <<insertable, ins_idx, ins_key, ins_map, ins_count, ins_tried,
                   restAuto, varsPlayers, varsFixture, varsNames, varsStats,
                   varsMatches, varsPlayerStats, varsRun, varsLoadPlayers,
                   varsStadiums, player_rows>>

NextAuto ==
    \/ AutoInsertRow
    \/ AutoInsertReturn

MaxAutoRows == 2

\* missing players of the stored teams 1 and 12 and of a team whose id is no
\* numeral (team_id_map holds "UUIDs", 332); no (name, team) twice (513)
AutoRows ==
    [player_name : { <<"R", "i", "c", "e">>, <<"S", "a", "k", "k", "a">>, <<"H", "a", "v", "e", "r", "t", "z">> },
     team_id : { <<"1">>, <<"1", "2">>, <<"9", "f", "3", "a">> }]

StartAuto ==
    /\ players = ResolveStore
    /\ insertable \in { s \in SeqsUpTo(AutoRows, MaxAutoRows) :
                          \A i, j \in 1..Len(s) : s[i] = s[j] => i = j }
    /\ ins_idx = 1
    /\ ins_key = <<>>
    /\ ins_map = <<>>
    /\ ins_count = 0
    /\ ins_result = "running"
    /\ ins_tried = <<>>

(* C23: in _auto_insert_missing_players, a failure while creating one       *)
(* player, at any step of that row's processing and for any reason other    *)
(* than a uniqueness violation, is confined to that row: the remaining      *)
(* players are still processed and the function returns the number inserted *)
(* instead of raising.                                                      *)

\* C23: the function never raises, and when it returns it has processed
\* every row
C23_FailureConfined ==
    /\ ins_result # "raised"
    /\ ins_result = "returned" => Len(ins_tried) = Len(insertable)

\* the part that holds: when the first row has a numeral for its team id,
\* every failure is confined
C23_ConfinedAfterFirstKey ==
    (insertable # <<>> /\ ~int_raises(insertable[1].team_id)) => C23_FailureConfined

\* the number returned is the number of players the table gained
C23_CountIsInserted ==
    ins_result = "returned" => ins_count = Len(players) - Len(ResolveStore)

\* the first row has a team id that is no numeral: the function raised at
\* that row and the second row was never processed
C23_Witness ==
    /\ ins_result = "raised"
    /\ Len(insertable) = 2
    /\ int_raises(insertable[1].team_id)
    /\ ins_idx = 1
    /\ Len(ins_tried) = 1
    /\ players = ResolveStore

\* the INSERT of the first row failed, the second row was inserted and the
\* function returned 1
C23_WitnessConfined ==
    /\ ins_result = "returned"
    /\ Len(ins_tried) = 2
    /\ ins_tried[1].met = "insert_error"
    /\ ins_tried[2].met = "ok"
    /\ ins_count = 1
    /\ Len(players) = Len(ResolveStore) + 1
-----------------------------------------------------------------------------
(* load_match_events (etl_script.py 1617-1726).  A row of PlaysExport.csv   *)
(* has the cells date, home_team, away_team, minute and event_type.         *)

\* h.team_name of the join at 1657-1662
team_name_of(team_id) ==
    teams_result[CHOOSE i \in 1..Len(teams_result) : teams_result[i][1] = team_id][2]

\* key = (match_date, str(match[2]), str(match[3])) with match[1].date()
\* (1667-1668)
event_key(date, home_team, away_team) == <<date.date, home_team, away_team>>

\* the key of a scanned match
scanned_key(m) ==
    event_key(m.date, team_name_of(m.home_team_id), team_name_of(m.away_team_id))

\* match_map after the loop at 1665-1669, read at a key: match_map[key] =
\* str(match[0]) assigns without a look at what the key holds, so the key
\* holds the id of the last scanned match that has it
match_map_get(rows, key) ==
    LET hits == { i \in 1..Len(rows) : scanned_key(rows[i]) = key }
    IN  IF hits = {} THEN None
        ELSE rows[CHOOSE i \in hits : \A j \in hits : j <= i].id

\* PREMIER_LEAGUE_STATS_MAPPING.get(str(x), self.normalize_team_name(str(x)))
\* (1636, 1638)
events_team(x) ==
    IF DictHas(PREMIER_LEAGUE_STATS_MAPPING, x)
    THEN DictGet(PREMIER_LEAGUE_STATS_MAPPING, x)
    ELSE normalize_team_name(x, fuzzy_threshold).name

\* 1634-1680: the rows with a date and a match, with their match ids
resolved_events(rows, scanned) ==
    LET id(i) == IF to_datetime(rows[i].date) = NaT THEN None
                 ELSE match_map_get(scanned,
                          event_key(to_datetime(rows[i].date),
                                    events_team(rows[i].home_team),
                                    events_team(rows[i].away_team)))
    IN  Rows([i \in 1..Len(rows) |->
                 [match_id |-> id(i),
                  minute |-> int(float(rows[i].minute))[1],
                  event_type |-> strip(rows[i].event_type)]],
             { i \in 1..Len(rows) : id(i) # None })

\* one run of load_match_events
LoadMatchEvents ==
    /\ events_pc = "input"
    /\ match_events' = match_events \o resolved_events(events_file, matches_result(matches))
    /\ events_pc' = "done"
    /\ UNCHANGED <<events_file, event_warnings, restEvents, varsFixture, varsNames,
                   varsStats, varsMatches, varsPlayers, varsPlayerStats, varsRun,
                   varsLoadPlayers, varsStadiums, player_rows>>

NextEvents == LoadMatchEvents

MaxEventRows == 2

EventRows ==
    [date : { <<"2", "0", "2", "3", "-", "0", "8", "-", "1", "9">>, <<"2", "0", "2", "3", "-", "0", "8", "-", "2", "0">>, <<"T", "B", "D">> },
     home_team : { Team.Arsenal, Team.Chelsea },
     away_team : { Team.Chelsea },
     minute : { <<"1", "2">> },
     event_type : { <<"g", "o", "a", "l">> }]

\* the matches tables of load_match_stats: up to MaxMatches matches, two
\* kick-offs of one fixture on one day among them
StartEvents ==
    /\ matches \in MatchTables
    /\ events_file \in SeqsUpTo(EventRows, MaxEventRows)
    /\ match_events = <<>>
    /\ event_warnings = <<>>
    /\ events_pc = "input"

(* C24: in load_match_events, when two persisted matches produce the same   *)
(* (date, home, away) lookup key while the match index is built, the        *)
(* collision is reported and the first-scanned match id is retained, so     *)
(* events are resolved to the first-scanned match.                          *)

\* the scanned matches that have the key of an event row
C24_Hits(row) ==
    { i \in 1..Len(matches) :
        /\ to_datetime(row.date) # NaT
        /\ scanned_key(matches[i]) = event_key(to_datetime(row.date),
                                               events_team(row.home_team),
                                               events_team(row.away_team)) }

\* the match ids of the events inserted, in the order of the file, if the
\* match with index pick(hits) is the one retained
C24_Ids(pick(_)) ==
    LET rows == SelectSeq(events_file, LAMBDA r : C24_Hits(r) # {})
    IN  [i \in 1..Len(rows) |-> matches[pick(C24_Hits(rows[i]))].id]

C24_First(hits) == CHOOSE i \in hits : \A j \in hits : i <= j

C24_Last(hits) == CHOOSE i \in hits : \A j \in hits : j <= i

C24_Collides ==
    \E i, j \in 1..Len(matches) : i < j /\ scanned_key(matches[i]) = scanned_key(matches[j])

\* C24: after the load every event carries the id of the first-scanned match
\* of its key, and a collision among the matches has been reported
C24_FirstScannedRetained ==
    events_pc = "done" =>
        /\ [i \in 1..Len(match_events) |-> match_events[i].match_id] = C24_Ids(C24_First)
        /\ C24_Collides => event_warnings # <<>>

\* what the code does: every event carries the id of the last-scanned match
\* of its key, and nothing is reported
C24_LastScannedRetained ==
    events_pc = "done" =>
        /\ [i \in 1..Len(match_events) |-> match_events[i].match_id] = C24_Ids(C24_Last)
        /\ event_warnings = <<>>

\* two kick-offs of Arsenal against Chelsea on 2023-08-19 and one event of
\* that day: the event carries the id of the second match
C24_Witness ==
    /\ events_pc = "done"
    /\ Len(matches) = 2
    /\ scanned_key(matches[1]) = scanned_key(matches[2])
    /\ Len(events_file) = 1
    /\ Len(match_events) = 1
    /\ match_events[1].match_id = matches[2].id
    /\ event_warnings = <<>>
-----------------------------------------------------------------------------
(* load_match_stats with a LineUpExport file (2249-2372).  A row of the     *)
(* lineup file has, like a row of the stats file, its canonical home_team,  *)
(* away_team and team_normalized and its timestamp, and the raw Formation   *)
(* cell.                                                                    *)

\* 2350-2352: str(x).strip(), None for a blank cell and the null sentinels
lineup_formation(x) ==
    IF x = <<>> \/ strip(x) = <<>> THEN None
    ELSE IF lower(strip(x)) \in { <<"n", "a", "n">>, <<"n", "o", "n", "e">>, <<"n", "u", "l", "l">> } THEN None
    ELSE strip(x)

\* 2284-2347: the lineup rows with a date, a match and a team of the match,
\* with their ids and cleaned formation
resolved_lineup(rows, master, info_map) ==
    LET match_id(i) == match_csv_row_to_master_map(rows[i], master)[1]
        team_id(i) == identify_team_id([rows[i] EXCEPT !.match_id = match_id(i)],
                                       info_map)[1]
    IN  Rows([i \in 1..Len(rows) |->
                 [match_id |-> match_id(i), team_id |-> team_id(i),
                  formation |-> lineup_formation(rows[i].formation)]],
             { i \in 1..Len(rows) :
                 /\ rows[i].date # NaT
                 /\ match_id(i) # None
                 /\ team_id(i) # None })

\* formation_map.get((match_id, team_id)) with formation_map =
\* groupby(['match_id_str', 'team_id_str'])['formation'].first() (2358-2365):
\* the first formation of the key that is not null
formation_map_get(lineup, match_id, team_id) ==
    LET hits == { i \in 1..Len(lineup) :
                    /\ lineup[i].match_id = match_id
                    /\ lineup[i].team_id = team_id
                    /\ lineup[i].formation # None }
    IN  IF hits = {} THEN None
        ELSE lineup[CHOOSE i \in hits : \A j \in hits : i <= j].formation

\* 2148-2247, 2249-2372 and 2377-2424: clean the stat columns, merge the
\* formations, start the write loop
CleanColumnsLineup ==
    /\ spc = "clean"
    /\ \E lineup \in { resolved_lineup(lineup_file, master_match_map, match_info_map) } :
          df' = [i \in 1..Len(df) |->
                    [Params(df[i]) EXCEPT
                        !.formation = formation_map_get(lineup, df[i].match_id,
                                                        df[i].team_id)]]
    /\ inserted' = 0
    /\ updated' = 0
    /\ failed' = 0
    /\ idx' = 1
    /\ attempt' = 0
    /\ retry_delay' = 2
    /\ row_success' = FALSE
    /\ spc' = "write"
    /\ UNCHANGED <<matches, match_stats, file, master_match_map, match_info_map,
                   duplicate_keys, match_results, team_results, faults, clock,
                   run, applied, tried,
                   notStats>>

NextLineup ==
    \/ BuildMasterMatchMap
    \/ ApplyMatching
    \/ IdentifyTeams
    \/ DropDuplicates
    \/ CleanColumnsLineup
    \/ WriteAttempt

MaxLineupRows == 3

\* lineup rows of the match of 2023-08-19 and of a day without a match, for
\* both teams, with two formations and a null sentinel
LineupRows ==
    [home_team : {Team.Arsenal},
     away_team : {Team.Chelsea},
     date : { [date |-> <<2023, 8, 19>>, time |-> <<0, 0>>],
              [date |-> <<2023, 8, 20>>, time |-> <<0, 0>>] },
     team_normalized : {Team.Arsenal, Team.Chelsea},
     formation : { <<"4", "-", "3", "-", "3">>, <<" ", "3", "-", "5", "-", "2">>, <<"N", "a", "N">> },
     match_id : {None},
     team_id : {None}]

\* one match, a stats row for each of its teams, an empty match_stats and a
\* store that raises nothing
StartLineup ==
    /\ matches = << [id |-> <<"1">>, date |-> [date |-> <<2023, 8, 19>>, time |-> <<15, 0>>],
                     home_team_id |-> <<"1">>, away_team_id |-> <<"1", "2">>] >>
    /\ match_stats = <<>>
    /\ file = [i \in 1..2 |->
                  [home_team |-> Team.Arsenal, away_team |-> Team.Chelsea,
                   date |-> [date |-> <<2023, 8, 19>>, time |-> <<0, 0>>],
                   team_normalized |-> <<Team.Arsenal, Team.Chelsea>>[i],
                   cells |-> ValueCells, match_id |-> None, team_id |-> None]]
    /\ lineup_file \in SeqsUpTo(LineupRows, MaxLineupRows)
    /\ faults = 0
    /\ StatsFresh

(* C25: when several LineUpExport rows of one run resolve to the same       *)
(* (match_id, team_id), the formation written for that key is the formation *)
(* of the last-encountered row.                                             *)

\* the lineup rows of the file that resolve to the key of a match_stats row
C25_RowsOf(r) ==
    SelectSeq(resolved_lineup(lineup_file, master_match_map, match_info_map),
              LAMBDA l : l.match_id = r.match_id /\ l.team_id = r.team_id)

\* C25: after the load every match_stats row with lineup rows has the
\* formation of the last of them
C25_LastFormationWritten ==
    spc = "done" =>
        \A k \in 1..Len(match_stats) : \A rows \in { C25_RowsOf(match_stats[k]) } :
            rows # <<>> => match_stats[k].formation = rows[Len(rows)].formation

\* what the code does: the formation of the first of them that has one
C25_FirstFormationWritten ==
    spc = "done" =>
        \A k \in 1..Len(match_stats) : \A rows \in { C25_RowsOf(match_stats[k]) } :
            \A i \in 1..Len(rows) :
                (rows[i].formation # None /\ \A j \in 1..(i - 1) : rows[j].formation = None)
                => match_stats[k].formation = rows[i].formation

\* two lineup rows of Arsenal in the match, 4-3-3 then 3-5-2: 4-3-3 written
C25_Witness ==
    /\ spc = "done"
    /\ Len(lineup_file) = 2
    /\ \A i \in 1..2 : /\ lineup_file[i].team_normalized = Team.Arsenal
                       /\ lineup_file[i].date.date = <<2023, 8, 19>>
    /\ lineup_file[1].formation = <<"4", "-", "3", "-", "3">>
    /\ lineup_file[2].formation = <<" ", "3", "-", "5", "-", "2">>
    /\ \E k \in 1..Len(match_stats) :
          /\ match_stats[k].team_id = <<"1">>
          /\ match_stats[k].formation = <<"4", "-", "3", "-", "3">>
-----------------------------------------------------------------------------
(* The resolution of load_player_stats on stores with several players close *)
(* to a missing name (453-485, 540-580).                                    *)

MaxAdoptPlayers == 2

\* players whose names are close to 'Martinez', of the teams 1 and 12
AdoptPlayers ==
    { [player_name |-> <<"M", "a", "r", "t", "i", "n", "e", "s">>, team_id |-> 1],
      [player_name |-> <<"M", "a", "r", "t", "i", "n", "e", "z", "z">>, team_id |-> 1],
      [player_name |-> <<"M", "a", "r", "t", "i", "n", "e", "x">>, team_id |-> 1],
      [player_name |-> <<"M", "a", "r", "t", "i", "n", "e", "z", "z">>, team_id |-> 12],
      [player_name |-> <<"R", "i", "c", "e">>, team_id |-> 12] }

\* the stores: the players in any order of scan, the i-th with id i
AdoptStores ==
    { [i \in 1..Len(s) |->
          [id |-> i, team_id |-> s[i].team_id, player_name |-> s[i].player_name,
           goals |-> Zero, assists |-> Zero, sofascore_rating |-> Zero,
           xg |-> Zero, xa |-> Zero, rating |-> Zero, xag |-> Zero,
           appearances |-> Zero]] :
      s \in { t \in SeqsUpTo(AdoptPlayers, MaxAdoptPlayers) :
                \A i, j \in 1..Len(t) : t[i] = t[j] => i = j } }

MaxAdoptRows == 2

AdoptRows ==
    [player_name : { <<"M", "a", "r", "t", "i", "n", "e", "z">> },
     team : { Team.Arsenal, Team.Chelsea },
     cells : { PlayerValueCells }]

StartAdopt ==
    /\ players \in AdoptStores
    /\ player_rows \in SeqsUpTo(AdoptRows, MaxAdoptRows)
    /\ player_df = <<>>
    /\ player_idx = 0
    /\ player_updated = 0
    /\ player_tried = <<>>

(* C26: fuzzy resolution of a missing player                                *)
(* (_try_fuzzy_match_missing_players and the pre-insert check of            *)
(* _auto_insert_missing_players) adopts an existing player only if that     *)
(* player belongs to the same team and its similarity score is at least 85; *)
(* among several qualifying candidates the one with the highest score is    *)
(* adopted, on equal scores the first scanned wins, and an exact            *)
(* normalized-name match takes precedence over any fuzzy candidate.         *)

\* the resolution has just ended
C26_Resolved == player_idx = 1 /\ player_tried = <<>>

\* the players the store had before the load: they have their statistics
C26_Stored == { i \in 1..Len(players) : players[i].goals # None }

C26_Score(i, r) ==
    ratio(r.player_name_normalized, normalize_player_name(players[i].player_name))

C26_Exact(i, r) ==
    normalize_player_name(players[i].player_name) = r.player_name_normalized

\* the stored players of the row's team, the candidates of the row
C26_Candidates(r) == { i \in C26_Stored : str(players[i].team_id) = r.team_id }

\* the stored player the row was resolved to, if it was resolved to one
C26_Adopted(r) == { i \in C26_Stored : str(players[i].id) = r.player_id }

\* the adopted player is of the row's team and has the name or a score of
\* at least 85
C26_Qualifies(i, r) ==
    /\ i \in C26_Candidates(r)
    /\ C26_Exact(i, r) \/ ScoreAtLeast(C26_Score(i, r), threshold)

\* the adopted player has the name, or no candidate has it, none has a
\* higher score, and none scanned before has the same score
C26_Best(i, r) ==
    \/ C26_Exact(i, r)
    \/ \A j \in C26_Candidates(r) :
          /\ ~C26_Exact(j, r)
          /\ ~ScoreGreater(C26_Score(j, r), C26_Score(i, r))
          /\ j < i => ScoreGreater(C26_Score(i, r), C26_Score(j, r))

\* C26: every row resolved to a stored player was resolved to a qualifying
\* one, and to the best of the qualifying ones
C26_BestCandidateAdopted ==
    C26_Resolved =>
        \A k \in 1..Len(player_df) : \A i \in C26_Adopted(player_df[k]) :
            /\ C26_Qualifies(i, player_df[k])
            /\ C26_Best(i, player_df[k])

\* the part that holds everywhere: same team and threshold
C26_AdoptedQualifies ==
    C26_Resolved =>
        \A k \in 1..Len(player_df) : \A i \in C26_Adopted(player_df[k]) :
            C26_Qualifies(i, player_df[k])

\* the part that holds for _try_fuzzy_match_missing_players: the rows of the
\* team of the first row with the name are resolved to the best candidate
C26_FuzzyPassBest ==
    C26_Resolved =>
        \A k \in 1..Len(player_df) : \A i \in C26_Adopted(player_df[k]) :
            (\E first \in { with_team_ids(player_rows)[1] } :
                first.team_id = player_df[k].team_id)
            => C26_Best(i, player_df[k])

\* Martinez of Chelsea, then of Arsenal, with Martines scanned before
\* Martinezz among the players of Arsenal: the row of Arsenal was resolved
\* to Martines, whose score is the lower one
C26_Witness ==
    /\ C26_Resolved
    /\ Len(player_rows) = 2
    /\ player_rows[1].team = Team.Chelsea
    /\ player_rows[2].team = Team.Arsenal
    /\ Len(players) >= 2
    /\ players[1].player_name = <<"M", "a", "r", "t", "i", "n", "e", "s">> /\ players[1].team_id = 1
    /\ players[2].player_name = <<"M", "a", "r", "t", "i", "n", "e", "z", "z">> /\ players[2].team_id = 1
    /\ \E k \in 1..Len(player_df) :
          /\ player_df[k].team_id = <<"1">>
          /\ player_df[k].player_id = <<"1">>

\* Martinez of Arsenal alone, same store: resolved to Martinezz
C26_WitnessBest ==
    /\ C26_Resolved
    /\ Len(player_rows) = 1
    /\ player_rows[1].team = Team.Arsenal
    /\ Len(players) = 2
    /\ players[1].player_name = <<"M", "a", "r", "t", "i", "n", "e", "s">> /\ players[1].team_id = 1
    /\ players[2].player_name = <<"M", "a", "r", "t", "i", "n", "e", "z", "z">> /\ players[2].team_id = 1
    /\ Len(player_df) = 1
    /\ player_df[1].player_id = <<"2">>
-----------------------------------------------------------------------------
(* clean_int (1224-1251) and clean_corners (1253-1283) on the cells of a    *)
(* stats file.                                                              *)

\* the two functions on one cell
CleanValue ==
    /\ cvpc = "input"
    /\ cleaned_value' = [clean_int |-> clean_int(raw_value),
                         clean_corners |-> clean_corners(raw_value)]
    /\ cvpc' = "done"
    /\ UNCHANGED <<raw_value, restClean, varsFixture, varsNames, varsStats,
                   varsMatches, varsPlayers, varsPlayerStats, varsRun,
                   varsLoadPlayers, varsStadiums, player_rows>>

NextClean == CleanValue

\* decimal numerals: an integer part, with a thousands separator or not, a
\* fractional part or none, a percent sign or none, blanks around or not
Numerals ==
    { pad \o ip \o fp \o pct \o pad :
        ip \in { <<"0">>, <<"7">>, <<"1", "2">>, <<"1", ",", "2", "3", "4">> },
        fp \in { <<>>, <<".", "0">>, <<".", "5">>, <<".", "7", "5">> },
        pct \in { <<>>, <<"%">> },
        pad \in { <<>>, <<" ">> } }

\* the null sentinels, a blank cell included, and texts that are no number
NoNumbers ==
    { <<>>, <<"n", "u", "l", "l">>, <<"N", "o", "n", "e">>, <<"N", "a", "N">>, <<" ", "n", "a", "n", " ">>, <<"N", "U", "L", "L">>,
      <<"a", "b", "c">>, <<"n", "-", "a">>, <<"-">>, <<"1", "-", "2">> }

StartClean ==
    /\ raw_value \in Numerals \cup NoNumbers
    /\ cleaned_value = <<>>
    /\ cvpc = "input"

(* C27: for every input that is a decimal numeral, possibly with a          *)
(* fractional part (such as '12.0'), thousands separators or a percent      *)
(* sign, clean_int and clean_corners return the integer part of the         *)
(* number's value; for null sentinels ('', 'null', 'none', 'nan', NaN) and  *)
(* unparseable text they return 0.                                          *)

\* the integer part of the number a numeral denotes: the digits before the
\* decimal point, thousands separators left out
C27_IntegerPart(numeral) ==
    LET body == SelectSeq(numeral, LAMBDA c : IsDigit(c) \/ c = ".")
        dot == find(body, <<".">>)
    IN  DigitsValue(IF dot = 0 THEN body ELSE SubSeq(body, 1, dot - 1))

C27_Expected ==
    IF raw_value \in Numerals THEN <<C27_IntegerPart(raw_value), 0>> ELSE Zero

\* C27: both functions return the integer part of a numeral and 0 for a
\* null sentinel or a text that is no number
C27_IntegerPartReturned ==
    cvpc = "done" =>
        /\ cleaned_value.clean_int = C27_Expected
        /\ cleaned_value.clean_corners = C27_Expected

\* the part that holds: the cells without a decimal point
C27_WithoutPointHolds ==
    (cvpc = "done" /\ find(raw_value, <<".">>) = 0) =>
        /\ cleaned_value.clean_int = C27_Expected
        /\ cleaned_value.clean_corners = C27_Expected

\* what the code does with a decimal point: it is removed with the other
\* characters that are no digits, and the digits after it are kept
C27_PointRemoved ==
    cvpc = "done" /\ raw_value \in Numerals =>
        \A r \in { cleaned_value.clean_int, cleaned_value.clean_corners } :
            r = <<DigitsValue(SelectSeq(raw_value, IsDigit)), 0>>

\* '12.0' gives 120
C27_Witness ==
    /\ cvpc = "done"
    /\ raw_value = <<"1", "2", ".", "0">>
    /\ cleaned_value.clean_int = <<120, 0>>
    /\ cleaned_value.clean_corners = <<120, 0>>

\* '1,234%' gives 1234
C27_WitnessSeparators ==
    /\ cvpc = "done"
    /\ raw_value = <<"1", ",", "2", "3", "4", "%">>
    /\ cleaned_value.clean_int = <<1234, 0>>
-----------------------------------------------------------------------------
(* The counters of the write loop of load_match_stats (2376-2378, 2421-2576) *)
(* under repeated store faults.                                             *)

(* C28: at the end of the write loop of load_match_stats, inserted +        *)
(* updated + failed equals the number of rows submitted to the loop: each   *)
(* row increments exactly one of the three counters exactly once, whatever  *)
(* sequence of successes, transient failures and terminal failures its      *)
(* attempts go through.                                                     *)

\* C28: when the loop is over the three counters add up to the rows of the
\* frame
C28_CountersAddUp ==
    spc = "done" => inserted + updated + failed = Len(df)

\* the part that holds: every row is counted at least once, and exactly once
\* when no attempt met anything but a failure to connect
C28_CountedAtLeastOnce ==
    spc = "done" =>
        /\ inserted + updated + failed >= Len(df)
        /\ (\A k \in 1..Len(tried) : tried[k].outcome \in {"ok", "connect_network"})
              => inserted + updated + failed = Len(df)

\* one row, one attempt, a terminal failure of the statement: failed is 2
C28_Witness ==
    /\ spc = "done"
    /\ Len(df) = 1
    /\ Len(tried) = 1
    /\ tried[1].outcome = "statement_other"
    /\ inserted = 0
    /\ updated = 0
    /\ failed = 2

(* C29: in load_match_stats a row is counted as inserted or updated, and    *)
(* marked successful, only if its transaction was committed: when the       *)
(* statement succeeds but the commit at the end of the per-row transaction  *)
(* fails, the row is not counted as written, and a retried row is counted   *)
(* at most once.                                                            *)

\* the rows whose transaction was committed
C29_Committed == { i \in 1..Len(df) : \E k \in 1..Len(applied) : applied[k].params = df[i] }

\* C29: the rows counted as written are the rows whose transaction was
\* committed, and a row whose last attempt was not committed is counted
\* failed
C29_CountedOnlyIfCommitted ==
    spc \in {"write", "done"} =>
        /\ inserted + updated = Cardinality(C29_Committed)
        /\ spc = "done" => failed >= Len(df) - Cardinality(C29_Committed)

\* the part that holds: every committed row is counted as written, and every
\* count as written follows a statement that ran
C29_CommittedAreCounted ==
    spc \in {"write", "done"} =>
        /\ inserted + updated >= Cardinality(C29_Committed)
        /\ inserted + updated =
             Cardinality({ k \in 1..Len(tried) :
                 tried[k].outcome \in {"ok", "commit_network", "commit_other"} })

\* one row: the commit of the first attempt fails, the second attempt is
\* committed, and the row is counted twice
C29_Witness ==
    /\ spc = "done"
    /\ Len(df) = 1
    /\ Len(tried) = 2
    /\ tried[1].outcome = "commit_network"
    /\ tried[2].outcome = "ok"
    /\ Cardinality(C29_Committed) = 1
    /\ updated = 2

\* one row: the commit fails at every attempt, nothing is stored, and the
\* row is counted three times as updated and never as failed
C29_WitnessNeverCommitted ==
    /\ spc = "done"
    /\ Len(df) = 1
    /\ Len(tried) = 3
    /\ \A k \in 1..3 : tried[k].outcome = "commit_network"
    /\ match_stats = <<>>
    /\ updated = 3
    /\ failed = 0
-----------------------------------------------------------------------------
(* The canonical name of one raw team name in the four load paths:          *)
(* load_matches (1472-1473), load_match_events (1636-1639),                 *)
(* load_match_stats (1826-1830) and load_player_stats (2728-2764).          *)

\* what each load path makes of the raw name
canonical_in(x) ==
    [load_matches |-> normalize_team_name(x, fuzzy_threshold).name,
     load_match_events |-> events_team(x),
     load_match_stats |-> normalize_team_name_with_map(x),
     load_player_stats |-> player_stats_team(x)]

CanonicalizeTeam ==
    /\ cnpc = "input"
    /\ canonical_names' = canonical_in(raw_team)
    /\ cnpc' = "done"
    /\ UNCHANGED <<raw_team, restCanon, varsFixture, varsNames, varsStats,
                   varsMatches, varsPlayers, varsPlayerStats, varsRun,
                   varsLoadPlayers, varsStadiums, player_rows>>

NextCanon == CanonicalizeTeam

\* the names of the stats files as written, in lower case, in upper case, and
\* as written with blanks around
TeamSpellings ==
    UNION { { k, lower(k), upper(k), <<" ">> \o k \o <<" ", " ">> } :
            k \in { PREMIER_LEAGUE_STATS_MAPPING[i][1] :
                      i \in 1..Len(PREMIER_LEAGUE_STATS_MAPPING) } }

StartCanon ==
    /\ raw_team \in TeamSpellings
    /\ canonical_names = <<>>
    /\ cnpc = "input"

(* C30: team canonicalization does not depend on letter case, surrounding   *)
(* whitespace, or on which alias table a load path consults: any two raw    *)
(* names that are equal after trimming and case folding (e.g. 'Bournemouth' *)
(* and 'bournemouth') resolve to the same canonical name in load_matches,   *)
(* load_match_events, load_match_stats and load_player_stats.               *)

C30_Paths == {"load_matches", "load_match_events", "load_match_stats", "load_player_stats"}

\* the raw name trimmed and case-folded: two raw names are equal after
\* trimming and case folding when they have the same fold
C30_Fold(x) == lower(strip(x))

\* C30: in every load path the raw name resolves to what its trimmed and
\* case-folded form resolves to, and the four load paths agree
C30_SameCanonicalName ==
    cnpc = "done" =>
        /\ canonical_names = canonical_in(C30_Fold(raw_team))
        /\ \A p, q \in C30_Paths : canonical_names[p] = canonical_names[q]

\* the part that holds: load_matches consults TEAM_NAME_MAPPING with the
\* trimmed and lower-cased name, so the spellings of an alias all resolve to
\* the alias's value there
C30_LoadMatchesFolds ==
    (cnpc = "done" /\ DictHas(TEAM_NAME_MAPPING, C30_Fold(raw_team))) =>
        canonical_names.load_matches = DictGet(TEAM_NAME_MAPPING, C30_Fold(raw_team))

\* 'Bournemouth' is 'AFC Bournemouth' in load_matches and 'Bournemouth' in
\* load_match_events and load_player_stats
C30_Witness ==
    /\ cnpc = "done"
    /\ raw_team = <<"B", "o", "u", "r", "n", "e", "m", "o", "u", "t", "h">>
    /\ canonical_names.load_matches =
         <<"A", "F", "C", " ", "B", "o", "u", "r", "n", "e", "m", "o", "u", "t", "h">>
    /\ canonical_names.load_match_events = raw_team
    /\ canonical_names.load_player_stats = raw_team

\* 'bournemouth' is 'AFC Bournemouth' in load_match_events and
\* load_player_stats
C30_WitnessLower ==
    /\ cnpc = "done"
    /\ raw_team = <<"b", "o", "u", "r", "n", "e", "m", "o", "u", "t", "h">>
    /\ canonical_names.load_match_events =
         <<"A", "F", "C", " ", "B", "o", "u", "r", "n", "e", "m", "o", "u", "t", "h">>
    /\ canonical_names.load_player_stats = canonical_names.load_match_events

\* ' Bournemouth  ' is 'AFC Bournemouth' in load_match_events, which looks the
\* untrimmed name up, and 'Bournemouth' in load_player_stats
C30_WitnessPadded ==
    /\ cnpc = "done"
    /\ raw_team = <<" ", "B", "o", "u", "r", "n", "e", "m", "o", "u", "t", "h", " ", " ">>
    /\ canonical_names.load_match_events =
         <<"A", "F", "C", " ", "B", "o", "u", "r", "n", "e", "m", "o", "u", "t", "h">>
    /\ canonical_names.load_player_stats = <<"B", "o", "u", "r", "n", "e", "m", "o", "u", "t", "h">>

-----------------------------------------------------------------------------
(* The specifications: each exercises one part of the program and leaves   *)
(* the variables of the other parts idle.                                   *)

InitFixture == StartFixture /\ IdleNames /\ IdleStats /\ IdleMatches /\ IdlePlayers /\ IdlePlayerStats /\ IdleOther

SpecFixture == InitFixture /\ [][NextFixture]_vars

InitNames == StartNames /\ IdleFixture /\ IdleStats /\ IdleMatches /\ IdlePlayers /\ IdlePlayerStats /\ IdleOther

SpecNames == InitNames /\ [][NextNames]_vars

InitStats == StartStats /\ IdleMatches /\ IdleFixture /\ IdleNames /\ IdlePlayers /\ IdlePlayerStats /\ IdleOther

SpecStats == InitStats /\ [][NextStats]_vars

InitUpsert == StartUpsert /\ IdleMatches /\ IdleFixture /\ IdleNames /\ IdlePlayers /\ IdlePlayerStats /\ IdleOther

SpecUpsert == InitUpsert /\ [][NextUpsert]_vars

InitPlayers == StartPlayers /\ IdleFixture /\ IdleNames /\ IdleStats /\ IdleMatches /\ IdlePlayerStats /\ IdleOther

SpecPlayers == InitPlayers /\ [][NextPlayers]_vars

InitMatches == StartMatches /\ IdleStatsRun /\ IdleFixture /\ IdleNames /\ IdlePlayers /\ IdlePlayerStats /\ IdleOther

SpecMatches == InitMatches /\ [][NextMatches]_vars

InitDedupe == StartDedupe /\ IdleMatches /\ IdleFixture /\ IdleNames /\ IdlePlayers /\ IdlePlayerStats /\ IdleOther

SpecDedupe == InitDedupe /\ [][NextStats]_vars

InitRetry == StartRetry /\ IdleMatches /\ IdleFixture /\ IdleNames /\ IdlePlayers /\ IdlePlayerStats /\ IdleOther

SpecRetry == InitRetry /\ [][NextStats]_vars

InitAbsent == StartAbsent /\ IdleMatches /\ IdleFixture /\ IdleNames /\ IdlePlayers /\ IdlePlayerStats /\ IdleOther

SpecAbsent == InitAbsent /\ [][NextStats]_vars

InitPlayerStats == StartPlayerStats /\ IdlePlayersRun /\ IdleFixture /\ IdleNames /\ IdleStats /\ IdleMatches /\ IdleOther

SpecPlayerStats == InitPlayerStats /\ [][NextPlayerStats]_vars

InitTransactions == StartTransactions /\ IdlePlayersRun /\ IdleMatches /\ IdleFixture /\ IdleNames /\ IdleOther

SpecTransactions == InitTransactions /\ [][NextTransactions]_vars

InitRun == StartRun /\ IdleFixture /\ IdleNames /\ IdleStats /\ IdleMatches /\ IdlePlayers /\ IdlePlayerStats /\ IdleLoadPlayers /\ IdleStadiums /\ IdleResolve /\ IdleMore

SpecRun == InitRun /\ [][NextRun]_vars /\ WF_vars(NextRun)

InitUnresolved == StartUnresolved /\ IdleFixture /\ IdleNames /\ IdlePlayers /\ IdlePlayerStats /\ IdleOther

SpecUnresolved == InitUnresolved /\ [][NextUnresolved]_vars

InitLoadPlayers == StartLoadPlayers /\ IdlePlayersRun /\ IdleFixture /\ IdleNames /\ IdleStats /\ IdleMatches /\ IdlePlayerStats /\ IdleRun /\ IdleStadiums /\ IdleResolve /\ IdleMore

SpecLoadPlayers == InitLoadPlayers /\ [][NextLoadPlayers]_vars

InitStadiums == StartStadiums /\ IdleFixture /\ IdleNames /\ IdleStats /\ IdleMatches /\ IdlePlayers /\ IdlePlayerStats /\ IdleRun /\ IdleLoadPlayers /\ IdleResolve /\ IdleMore

SpecStadiums == InitStadiums /\ [][NextStadiums]_vars

InitResolve == StartResolve /\ IdlePlayersRun /\ IdleFixture /\ IdleNames /\ IdleStats /\ IdleMatches /\ IdleRun /\ IdleLoadPlayers /\ IdleStadiums /\ IdleMore

SpecResolve == InitResolve /\ [][NextResolve]_vars

InitMatchKeys == StartMatchKeys /\ IdleStatsRun /\ IdleFixture /\ IdleNames /\ IdlePlayers /\ IdlePlayerStats /\ IdleOther

SpecMatchKeys == InitMatchKeys /\ [][NextMatches]_vars

InitStore == StartStore /\ IdleNotStoreLoads /\ IdleStatsRun /\ IdleFixture /\ IdleNames /\ IdlePlayersRun /\ IdlePlayerStats /\ IdleRun /\ IdleResolve

SpecStore == InitStore /\ [][NextStore]_vars

InitAuto == StartAuto /\ IdleNotAuto /\ IdlePlayersRun /\ IdleFixture /\ IdleNames /\ IdleStats /\ IdleMatches /\ IdlePlayerStats /\ IdleRun /\ IdleLoadPlayers /\ IdleStadiums /\ IdleResolve

SpecAuto == InitAuto /\ [][NextAuto]_vars

InitEvents == StartEvents /\ IdleNotEvents /\ IdleStatsRun /\ IdleMatches /\ IdleFixture /\ IdleNames /\ IdlePlayers /\ IdlePlayerStats /\ IdleRun /\ IdleLoadPlayers /\ IdleStadiums /\ IdleResolve

SpecEvents == InitEvents /\ [][NextEvents]_vars

InitLineup == StartLineup /\ IdleNotLineup /\ IdleMatches /\ IdleFixture /\ IdleNames /\ IdlePlayers /\ IdlePlayerStats /\ IdleRun /\ IdleLoadPlayers /\ IdleStadiums /\ IdleResolve

SpecLineup == InitLineup /\ [][NextLineup]_vars

InitAdopt == StartAdopt /\ IdlePlayersRun /\ IdleFixture /\ IdleNames /\ IdleStats /\ IdleMatches /\ IdleRun /\ IdleLoadPlayers /\ IdleStadiums /\ IdleMore

SpecAdopt == InitAdopt /\ [][NextResolve]_vars

InitClean == StartClean /\ IdleNotClean /\ IdleFixture /\ IdleNames /\ IdleStats /\ IdleMatches /\ IdlePlayers /\ IdlePlayerStats /\ IdleRun /\ IdleLoadPlayers /\ IdleStadiums /\ IdleResolve

SpecClean == InitClean /\ [][NextClean]_vars

InitCanon == StartCanon /\ IdleNotCanon /\ IdleFixture /\ IdleNames /\ IdleStats /\ IdleMatches /\ IdlePlayers /\ IdlePlayerStats /\ IdleRun /\ IdleLoadPlayers /\ IdleStadiums /\ IdleResolve

SpecCanon == InitCanon /\ [][NextCanon]_vars

=============================================================================
